---- MODULE Spec2Model ----
(***************************************************************************)
(* People counter: the line-crossing counter (counter.py) and the          *)
(* ByteTrack-style tracker (tracker.py), modelled as state machines.       *)
(*                                                                         *)
(* Numbers: pixel coordinates are integers.  Confidences are integers in   *)
(* percent (0.6 is 60).  A float quotient p/q is kept as the pair <<p,q>>  *)
(* with q > 0 and compared by cross-multiplication; a square root is       *)
(* compared through the squares of both sides.  An IoU stored in the      *)
(* float32 matrix of the association is rounded to float32 (F32).          *)
(***************************************************************************)
EXTENDS Integers, Sequences, FiniteSets

VARIABLES
    \* ---- LineCounter (counter.py) ----
    line_start, line_end, direction,
    track_positions, track_sides, track_crossed, track_lost_frames,
    total_enter, total_exit, current_occupancy, counting_history,
    \* history variables of the LineCounter runs
    unseen,     \* id -> consecutive update calls without the id (-1: never seen)
    fed,        \* the update arguments so far (recorded by the scenario run only)
    last_call,  \* the name of the last operation called on the counter
    episode,    \* history variable: id -> an event was logged for the id and no
                \* later update saw it re-arm (same side, far from the line, moved)
    returned_history,   \* the list object last returned by get_history
    seen_far,   \* history variable: id -> since its last event the id was seen, by
                \* an update that began with its counted flag set, at a center
                \* farther than crossing_reset_distance from the line
    last_center,    \* history variable: id -> the center of the id's track in
                    \* the latest update whose argument held the id
    reappeared,     \* history variable: id -> "counted" or "uncounted" if the
                    \* latest update that held the id found its record with
                    \* an unseen counter (and logged an event for it or not),
                    \* "no" otherwise (recorded by the purge run only)
    \* ---- ByteTracker (tracker.py) ----
    max_age, min_hits,
    tracked_tracks, lost_tracks, removed_tracks, frame_count, next_id,
    output_tracks,  \* the list returned by the last ByteTracker.update
    created_ids,    \* history variable: the ids given to new tracks, in creation order
    since_match,    \* history variable: id -> update calls completed since its last match
    last_detections,    \* the argument of the last ByteTracker.update (recorded by
                        \* the step run only)
    lost_before,        \* the ids in lost_tracks when the last ByteTracker.update
                        \* began (recorded by the step run only)
    appended,           \* history variable: id -> every center appended to the
                        \* track's history, oldest first (recorded by the walk
                        \* run only)
    \* ---- calls of the pure functions of tracker.py ----
    iou_box1, iou_box2, iou_result, iou_pc,
    assoc_detections, assoc_tracks, assoc_result, assoc_pc,
    \* ---- a second LineCounter, built with the two endpoints swapped ----
    mirror,     \* its fields, as the record CounterState gives for the first
    on_line,    \* history variable: some update so far held a track whose
                \* center lies on the line (recorded by the mirror run only)
    \* ---- one job of the backend (backend/api.py) ----
    job_status,     \* processing_jobs[job_id]["status"]
    job_tasks,      \* the process_video tasks added for the job, in the order
                    \* of add_task: where each one stands and the frames it wrote
    post_responses  \* the answers to the POST /api/process/{job_id} so far

counterVars == <<line_start, line_end, direction,
                 track_positions, track_sides, track_crossed, track_lost_frames,
                 total_enter, total_exit, current_occupancy, counting_history,
                 unseen, fed, last_call, episode, returned_history, seen_far,
                 last_center, reappeared>>

trackerVars == <<max_age, min_hits, tracked_tracks, lost_tracks, removed_tracks,
                 frame_count, next_id, output_tracks, created_ids, since_match,
                 last_detections, lost_before, appended>>

iouVars == <<iou_box1, iou_box2, iou_result, iou_pc>>

assocVars == <<assoc_detections, assoc_tracks, assoc_result, assoc_pc>>

mirrorVars == <<mirror, on_line>>

apiVars == <<job_status, job_tasks, post_responses>>

vars == <<counterVars, trackerVars, iouVars, assocVars, mirrorVars, apiVars>>

-----------------------------------------------------------------------------
(* Generic helpers *)

Max(a, b) == IF a >= b THEN a ELSE b
Min(a, b) == IF a <= b THEN a ELSE b

EmptyMap == << >>
MapSet(f, k, v) == [x \in (DOMAIN f) \cup {k} |-> IF x = k THEN v ELSE f[x]]
MapDel(f, k) == [x \in (DOMAIN f) \ {k} |-> f[x]]
MapGet(f, k, dflt) == IF k \in DOMAIN f THEN f[k] ELSE dflt

SeqToSet(s) == {s[i] : i \in 1..Len(s)}

-----------------------------------------------------------------------------
(* LineCounter configuration, counter.py __init__ *)

min_crossing_distance == 2
lost_frame_threshold == 30
crossing_reset_distance == 20

(* get_line_equation: a*x + b*y + c = 0 *)
get_line_equation(ls, le) ==
    LET x1 == ls[1]
        y1 == ls[2]
        x2 == le[1]
        y2 == le[2]
    IN  [a |-> y2 - y1,
         b |-> -(x2 - x1),
         c |-> (x2 - x1) * y1 - (y2 - y1) * x1]

(* point_to_line_distance: the signed distance num / sqrt(den2); 0 when   *)
(* a = b = 0.                                                              *)
point_to_line_distance(ls, le, point) ==
    LET eq == get_line_equation(ls, le)
        n2 == eq.a * eq.a + eq.b * eq.b
    IN  IF n2 > 0
        THEN [num |-> eq.a * point[1] + eq.b * point[2] + eq.c, den2 |-> n2]
        ELSE [num |-> 0, den2 |-> 1]

(* variant: the horizontal branch takes the positive side as enter *)
get_point_side_HorizontalFlipped(ls, le, dir, point) ==
    LET distance == point_to_line_distance(ls, le, point)
    IN  IF dir = "horizontal"
        THEN (IF distance.num > 0 THEN "enter" ELSE "exit")
        ELSE (IF distance.num < 0 THEN "enter" ELSE "exit")

(* variant: a point at distance 0 is put on the enter side *)
get_point_side_NonStrict(ls, le, dir, point) ==
    LET distance == point_to_line_distance(ls, le, point)
    IN  IF dir = "horizontal"
        THEN (IF distance.num <= 0 THEN "enter" ELSE "exit")
        ELSE (IF distance.num <= 0 THEN "enter" ELSE "exit")

(* get_point_side: both branches of the orientation test return the same. *)
get_point_side(ls, le, dir, point) ==
    LET distance == point_to_line_distance(ls, le, point)
    IN  IF dir = "horizontal"
        THEN (IF distance.num < 0 THEN "enter" ELSE "exit")
        ELSE (IF distance.num < 0 THEN "enter" ELSE "exit")

(* abs(distance) > r, for r >= 0 *)
DistanceExceeds(distance, r) == distance.num * distance.num > r * r * distance.den2

TrackCenter(track) == <<(track[1] + track[3]) \div 2, (track[2] + track[4]) \div 2>>

(* distance_moved >= m, for m >= 0 *)
MovedAtLeast(center, previous_pos, m) ==
    (center[1] - previous_pos[1]) * (center[1] - previous_pos[1])
      + (center[2] - previous_pos[2]) * (center[2] - previous_pos[2]) >= m * m

(* The counter's mutable fields as one record, threaded through update. *)
CounterState ==
    [pos |-> track_positions, sides |-> track_sides, crossed |-> track_crossed,
     lost |-> track_lost_frames, te |-> total_enter, tx |-> total_exit,
     occ |-> current_occupancy, hist |-> counting_history]

(* __init__, lines 37-47: the fields of a counter just built *)
NewCounterState ==
    [pos |-> EmptyMap, sides |-> EmptyMap, crossed |-> EmptyMap, lost |-> EmptyMap,
     te |-> 0, tx |-> 0, occ |-> 0, hist |-> << >>]

(* update, lines 124-126: every unseen counter is incremented *)
IncrementLost(st) ==
    [st EXCEPT !.lost = [k \in DOMAIN st.lost |-> st.lost[k] + 1]]

(* Variant of CountCrossing: the exit branch decrements without the floor *)
CountCrossing_NoFloor(st, track_id, current_side, timestamp) ==
    LET te2 == IF current_side = "enter" THEN st.te + 1 ELSE st.te
        tx2 == IF current_side = "enter" THEN st.tx ELSE st.tx + 1
        occ2 == IF current_side = "enter" THEN st.occ + 1 ELSE st.occ - 1
    IN  [st EXCEPT !.te = te2, !.tx = tx2, !.occ = occ2,
                   !.crossed = MapSet(st.crossed, track_id, TRUE),
                   !.hist = Append(st.hist,
                                   [timestamp |-> timestamp, track_id |-> track_id,
                                    direction |-> current_side,
                                    total_enter |-> te2, total_exit |-> tx2])]

(* Variant of CountCrossing: the counted flag is not set *)
CountCrossing_FlagNotSet(st, track_id, current_side, timestamp) ==
    LET te2 == IF current_side = "enter" THEN st.te + 1 ELSE st.te
        tx2 == IF current_side = "enter" THEN st.tx ELSE st.tx + 1
        occ2 == IF current_side = "enter" THEN st.occ + 1 ELSE Max(0, st.occ - 1)
    IN  [st EXCEPT !.te = te2, !.tx = tx2, !.occ = occ2,
                   !.hist = Append(st.hist,
                                   [timestamp |-> timestamp, track_id |-> track_id,
                                    direction |-> current_side,
                                    total_enter |-> te2, total_exit |-> tx2])]

(* Variant of CountCrossing: the event carries the totals before the increment *)
CountCrossing_StaleTotals(st, track_id, current_side, timestamp) ==
    LET te2 == IF current_side = "enter" THEN st.te + 1 ELSE st.te
        tx2 == IF current_side = "enter" THEN st.tx ELSE st.tx + 1
        occ2 == IF current_side = "enter" THEN st.occ + 1 ELSE Max(0, st.occ - 1)
    IN  [st EXCEPT !.te = te2, !.tx = tx2, !.occ = occ2,
                   !.crossed = MapSet(st.crossed, track_id, TRUE),
                   !.hist = Append(st.hist,
                                   [timestamp |-> timestamp, track_id |-> track_id,
                                    direction |-> current_side,
                                    total_enter |-> st.te, total_exit |-> st.tx])]

(* update, lines 170-191: a qualifying crossing is counted and logged *)
CountCrossing(st, track_id, current_side, timestamp) ==
    LET te2 == IF current_side = "enter" THEN st.te + 1 ELSE st.te
        tx2 == IF current_side = "enter" THEN st.tx ELSE st.tx + 1
        occ2 == IF current_side = "enter" THEN st.occ + 1 ELSE Max(0, st.occ - 1)
    IN  [st EXCEPT !.te = te2, !.tx = tx2, !.occ = occ2,
                   !.crossed = MapSet(st.crossed, track_id, TRUE),
                   !.hist = Append(st.hist,
                                   [timestamp |-> timestamp, track_id |-> track_id,
                                    direction |-> current_side,
                                    total_enter |-> te2, total_exit |-> tx2])]

(* Variant of ResetCrossed: the flag is never cleared *)
ResetCrossed_Never(st, ls, le, track_id, center, previous_pos) == st

(* Variant of ResetCrossed: the flag is cleared whatever the distances *)
ResetCrossed_Always(st, ls, le, track_id, center, previous_pos) ==
    IF MapGet(st.crossed, track_id, FALSE)
    THEN [st EXCEPT !.crossed = MapSet(st.crossed, track_id, FALSE)]
    ELSE st

(* Variant of ResetCrossed: the test against crossing_reset_distance is not strict *)
ResetCrossed_NonStrict(st, ls, le, track_id, center, previous_pos) ==
    LET distance == point_to_line_distance(ls, le, center)
    IN  IF MapGet(st.crossed, track_id, FALSE)
           /\ distance.num * distance.num
                 >= crossing_reset_distance * crossing_reset_distance * distance.den2
           /\ MovedAtLeast(center, previous_pos, min_crossing_distance)
        THEN [st EXCEPT !.crossed = MapSet(st.crossed, track_id, FALSE)]
        ELSE st

(* Variant of ResetCrossed: the signed distance is compared, without abs() *)
ResetCrossed_NoAbs(st, ls, le, track_id, center, previous_pos) ==
    LET distance == point_to_line_distance(ls, le, center)
    IN  IF MapGet(st.crossed, track_id, FALSE)
           /\ distance.num > 0
           /\ DistanceExceeds(distance, crossing_reset_distance)
           /\ MovedAtLeast(center, previous_pos, min_crossing_distance)
        THEN [st EXCEPT !.crossed = MapSet(st.crossed, track_id, FALSE)]
        ELSE st

(* update, lines 199-207: re-arm a counted track far from the line *)
ResetCrossed(st, ls, le, track_id, center, previous_pos) ==
    IF MapGet(st.crossed, track_id, FALSE)
       /\ DistanceExceeds(point_to_line_distance(ls, le, center), crossing_reset_distance)
       /\ MovedAtLeast(center, previous_pos, min_crossing_distance)
    THEN [st EXCEPT !.crossed = MapSet(st.crossed, track_id, FALSE)]
    ELSE st

(* Variant of ProcessTrack: a side change is counted whatever the counted flag *)
ProcessTrack_NoDebounce(st, ls, le, dir, track, timestamp) ==
    LET track_id == track[5]
        center == TrackCenter(track)
        s1 == [st EXCEPT !.lost = MapDel(st.lost, track_id)]
        current_side == get_point_side(ls, le, dir, center)
        s2 == IF track_id \notin DOMAIN s1.pos
              THEN [s1 EXCEPT !.crossed = MapSet(s1.crossed, track_id, FALSE)]
              ELSE LET previous_side == MapGet(s1.sides, track_id, current_side)
                       previous_pos == s1.pos[track_id]
                   IN  IF previous_side # current_side
                       THEN IF MovedAtLeast(center, previous_pos, min_crossing_distance)
                            THEN CountCrossing(s1, track_id, current_side, timestamp)
                            ELSE s1
                       ELSE ResetCrossed(s1, ls, le, track_id, center, previous_pos)
    IN  [s2 EXCEPT !.pos = MapSet(s2.pos, track_id, center),
                   !.sides = MapSet(s2.sides, track_id, current_side)]

(* variant: a first sighting on the exit side is counted as an exit *)
ProcessTrack_FirstSightingCounts(st, ls, le, dir, track, timestamp) ==
    LET track_id == track[5]
        center == TrackCenter(track)
        s1 == [st EXCEPT !.lost = MapDel(st.lost, track_id)]
        current_side == get_point_side(ls, le, dir, center)
        s2 == IF track_id \notin DOMAIN s1.pos
              THEN IF current_side = "exit"
                   THEN CountCrossing(s1, track_id, current_side, timestamp)
                   ELSE [s1 EXCEPT !.crossed = MapSet(s1.crossed, track_id, FALSE)]
              ELSE LET previous_side == MapGet(s1.sides, track_id, current_side)
                       previous_pos == s1.pos[track_id]
                   IN  IF previous_side # current_side
                       THEN IF ~MapGet(s1.crossed, track_id, FALSE)
                               /\ MovedAtLeast(center, previous_pos, min_crossing_distance)
                            THEN CountCrossing(s1, track_id, current_side, timestamp)
                            ELSE s1
                       ELSE ResetCrossed(s1, ls, le, track_id, center, previous_pos)
    IN  [s2 EXCEPT !.pos = MapSet(s2.pos, track_id, center),
                   !.sides = MapSet(s2.sides, track_id, current_side)]

(* variant: the record is left as it was when a side change is not counted *)
ProcessTrack_KeepsRejected(st, ls, le, dir, track, timestamp) ==
    LET track_id == track[5]
        center == TrackCenter(track)
        s1 == [st EXCEPT !.lost = MapDel(st.lost, track_id)]
        current_side == get_point_side(ls, le, dir, center)
        known == track_id \in DOMAIN s1.pos
        previous_side == MapGet(s1.sides, track_id, current_side)
        counts == /\ known
                  /\ previous_side # current_side
                  /\ ~MapGet(s1.crossed, track_id, FALSE)
                  /\ MovedAtLeast(center, s1.pos[track_id], min_crossing_distance)
        s2 == IF ~known
              THEN [s1 EXCEPT !.crossed = MapSet(s1.crossed, track_id, FALSE)]
              ELSE IF previous_side # current_side
                   THEN IF counts
                        THEN CountCrossing(s1, track_id, current_side, timestamp)
                        ELSE s1
                   ELSE ResetCrossed(s1, ls, le, track_id, center, s1.pos[track_id])
    IN  IF known /\ previous_side # current_side /\ ~counts
        THEN s2
        ELSE [s2 EXCEPT !.pos = MapSet(s2.pos, track_id, center),
                        !.sides = MapSet(s2.sides, track_id, current_side)]

(* variant: the unseen counter of a track that is seen again is kept *)
ProcessTrack_KeepsLostCounter(st, ls, le, dir, track, timestamp) ==
    LET track_id == track[5]
        center == TrackCenter(track)
        current_side == get_point_side(ls, le, dir, center)
        s2 == IF track_id \notin DOMAIN st.pos
              THEN [st EXCEPT !.crossed = MapSet(st.crossed, track_id, FALSE)]
              ELSE LET previous_side == MapGet(st.sides, track_id, current_side)
                       previous_pos == st.pos[track_id]
                   IN  IF previous_side # current_side
                       THEN IF ~MapGet(st.crossed, track_id, FALSE)
                               /\ MovedAtLeast(center, previous_pos, min_crossing_distance)
                            THEN CountCrossing(st, track_id, current_side, timestamp)
                            ELSE st
                       ELSE ResetCrossed(st, ls, le, track_id, center, previous_pos)
    IN  [s2 EXCEPT !.pos = MapSet(s2.pos, track_id, center),
                   !.sides = MapSet(s2.sides, track_id, current_side)]

(* update, lines 128-211: the body of the loop for one track *)
ProcessTrack(st, ls, le, dir, track, timestamp) ==
    LET track_id == track[5]
        center == TrackCenter(track)
        s1 == [st EXCEPT !.lost = MapDel(st.lost, track_id)]
        current_side == get_point_side(ls, le, dir, center)
        s2 == IF track_id \notin DOMAIN s1.pos
              THEN [s1 EXCEPT !.crossed = MapSet(s1.crossed, track_id, FALSE)]
              ELSE LET previous_side == MapGet(s1.sides, track_id, current_side)
                       previous_pos == s1.pos[track_id]
                   IN  IF previous_side # current_side
                       THEN IF ~MapGet(s1.crossed, track_id, FALSE)
                               /\ MovedAtLeast(center, previous_pos, min_crossing_distance)
                            THEN CountCrossing(s1, track_id, current_side, timestamp)
                            ELSE s1
                       ELSE ResetCrossed(s1, ls, le, track_id, center, previous_pos)
    IN  [s2 EXCEPT !.pos = MapSet(s2.pos, track_id, center),
                   !.sides = MapSet(s2.sides, track_id, current_side)]

RECURSIVE ProcessTracks(_, _, _, _, _, _, _)
ProcessTracks(st, ls, le, dir, tracks, i, timestamp) ==
    IF i > Len(tracks)
    THEN st
    ELSE ProcessTracks(ProcessTrack(st, ls, le, dir, tracks[i], timestamp),
                       ls, le, dir, tracks, i + 1, timestamp)

(* update, lines 213-217: ids with a record that were not in this call *)
MarkMissing(st, current_track_ids) ==
    LET tracks_to_remove == (DOMAIN st.pos) \ current_track_ids
    IN  [st EXCEPT !.lost = [k \in (DOMAIN st.lost) \cup tracks_to_remove |->
                                IF k \in DOMAIN st.lost THEN st.lost[k] ELSE 0]]

(* variant: a record is dropped only when its counter exceeds the threshold *)
PurgeLost_Late(st) ==
    LET tracks_to_delete == {k \in DOMAIN st.lost : st.lost[k] > lost_frame_threshold}
    IN  [st EXCEPT !.pos = [k \in (DOMAIN st.pos) \ tracks_to_delete |-> st.pos[k]],
                   !.sides = [k \in (DOMAIN st.sides) \ tracks_to_delete |-> st.sides[k]],
                   !.crossed = [k \in (DOMAIN st.crossed) \ tracks_to_delete |-> st.crossed[k]],
                   !.lost = [k \in (DOMAIN st.lost) \ tracks_to_delete |-> st.lost[k]]]

(* update, lines 219-233: drop the records unseen for too long *)
PurgeLost(st) ==
    LET tracks_to_delete == {k \in DOMAIN st.lost : st.lost[k] >= lost_frame_threshold}
    IN  [st EXCEPT !.pos = [k \in (DOMAIN st.pos) \ tracks_to_delete |-> st.pos[k]],
                   !.sides = [k \in (DOMAIN st.sides) \ tracks_to_delete |-> st.sides[k]],
                   !.crossed = [k \in (DOMAIN st.crossed) \ tracks_to_delete |-> st.crossed[k]],
                   !.lost = [k \in (DOMAIN st.lost) \ tracks_to_delete |-> st.lost[k]]]

(* variant: the reset of the 'r' key, which also zeroes the totals *)
reset_counting_flags_AlsoTotals(st) ==
    [st EXCEPT !.crossed = EmptyMap, !.te = 0, !.tx = 0, !.occ = 0]

(* reset_counting_flags, lines 237-239: self.track_crossed.clear() *)
reset_counting_flags(st) == [st EXCEPT !.crossed = EmptyMap]

(* variant: the 'r' key without the call of reset_counting_flags *)
key_reset_KeepsFlags(st) ==
    [st EXCEPT !.te = 0, !.tx = 0, !.occ = 0, !.hist = << >>]

(* main, lines 283-289, the 'r' key: the totals and the occupancy are set  *)
(* to 0, the log is cleared in place and reset_counting_flags is called    *)
key_reset(st) ==
    reset_counting_flags([st EXCEPT !.te = 0, !.tx = 0, !.occ = 0, !.hist = << >>])

(* variant: the list object self.counting_history itself is returned *)
get_history_Alias(hist) == [shared |-> TRUE, items |-> hist]

(* get_history, lines 241-243: self.counting_history.copy(), a new list    *)
(* object with the same items in the same order                            *)
get_history(hist) == [shared |-> FALSE, items |-> hist]

TrackIdsOf(tracks) == {tracks[i][5] : i \in 1..Len(tracks)}

(* LineCounter.update as a function of the state before the call *)
UpdateResult(st, ls, le, dir, tracks, timestamp) ==
    PurgeLost(MarkMissing(ProcessTracks(IncrementLost(st), ls, le, dir, tracks, 1, timestamp),
                          TrackIdsOf(tracks)))

-----------------------------------------------------------------------------
(* tracker.py *)

iou_threshold == <<3, 10>>     \* 0.3
track_thresh == 50             \* 0.5
high_thresh == 60              \* 0.6
default_max_age == 30
default_min_hits == 3
history_maxlen == 30

BoxCenter(bbox) == <<(bbox[1] + bbox[3]) \div 2, (bbox[2] + bbox[4]) \div 2>>

(* variant: a full deque drops the new element *)
DequeAppend_DropsNewest(history, center) ==
    IF Len(history) >= history_maxlen
    THEN history
    ELSE Append(history, center)

(* deque(maxlen=30).append *)
DequeAppend(history, center) ==
    IF Len(history) >= history_maxlen
    THEN Append(Tail(history), center)
    ELSE Append(history, center)

(* variant: a new track starts with hit count 0 *)
NewTrack_ZeroHits(track_id, bbox, conf) ==
    [track_id |-> track_id, bbox |-> bbox, conf |-> conf, hits |-> 0,
     time_since_update |-> 0, history |-> DequeAppend(<< >>, BoxCenter(bbox))]

(* Track.__init__ *)
NewTrack(track_id, bbox, conf) ==
    [track_id |-> track_id, bbox |-> bbox, conf |-> conf, hits |-> 1,
     time_since_update |-> 0, history |-> DequeAppend(<< >>, BoxCenter(bbox))]

(* variant: the hit count starts over at 1 when the track is updated *)
TrackUpdate_HitsReset(track, bbox, conf) ==
    [track EXCEPT !.bbox = bbox, !.conf = conf, !.hits = 1,
                  !.time_since_update = 0,
                  !.history = DequeAppend(track.history, BoxCenter(bbox))]

(* Track.update *)
TrackUpdate(track, bbox, conf) ==
    [track EXCEPT !.bbox = bbox, !.conf = conf, !.hits = track.hits + 1,
                  !.time_since_update = 0,
                  !.history = DequeAppend(track.history, BoxCenter(bbox))]

DetBox(det) == <<det[1], det[2], det[3], det[4]>>

(* Variant of _iou: the intersection is not subtracted from the union *)
_iou_UnionNotReduced(box1, box2) ==
    LET inter_x_min == Max(box1[1], box2[1])
        inter_y_min == Max(box1[2], box2[2])
        inter_x_max == Min(box1[3], box2[3])
        inter_y_max == Min(box1[4], box2[4])
        inter_area == (inter_x_max - inter_x_min) * (inter_y_max - inter_y_min)
        box1_area == (box1[3] - box1[1]) * (box1[4] - box1[2])
        box2_area == (box2[3] - box2[1]) * (box2[4] - box2[2])
        union_area == box1_area + box2_area
    IN  IF inter_x_max < inter_x_min \/ inter_y_max < inter_y_min
        THEN <<0, 1>>
        ELSE IF union_area > 0 THEN <<inter_area, union_area>> ELSE <<0, 1>>

(* Variant of _iou: the height of box2 is taken from box1 *)
_iou_WrongHeight(box1, box2) ==
    LET inter_x_min == Max(box1[1], box2[1])
        inter_y_min == Max(box1[2], box2[2])
        inter_x_max == Min(box1[3], box2[3])
        inter_y_max == Min(box1[4], box2[4])
        inter_area == (inter_x_max - inter_x_min) * (inter_y_max - inter_y_min)
        box1_area == (box1[3] - box1[1]) * (box1[4] - box1[2])
        box2_area == (box2[3] - box2[1]) * (box1[4] - box1[2])
        union_area == box1_area + box2_area - inter_area
    IN  IF inter_x_max < inter_x_min \/ inter_y_max < inter_y_min
        THEN <<0, 1>>
        ELSE IF union_area > 0 THEN <<inter_area, union_area>> ELSE <<0, 1>>

(* ByteTracker._iou: the quotient inter_area / union_area as <<p, q>>, 0.0 as <<0, 1>> *)
_iou(box1, box2) ==
    LET inter_x_min == Max(box1[1], box2[1])
        inter_y_min == Max(box1[2], box2[2])
        inter_x_max == Min(box1[3], box2[3])
        inter_y_max == Min(box1[4], box2[4])
        inter_area == (inter_x_max - inter_x_min) * (inter_y_max - inter_y_min)
        box1_area == (box1[3] - box1[1]) * (box1[4] - box1[2])
        box2_area == (box2[3] - box2[1]) * (box2[4] - box2[2])
        union_area == box1_area + box2_area - inter_area
    IN  IF inter_x_max < inter_x_min \/ inter_y_max < inter_y_min
        THEN <<0, 1>>
        ELSE IF union_area > 0 THEN <<inter_area, union_area>> ELSE <<0, 1>>

(* Equality of two quotients with positive denominators *)
QuotEq(p, q) == p[1] * q[2] = q[1] * p[2]

(* _associate..., lines 214-217: iou_matrix is a float32 array, so every   *)
(* stored IoU is the quotient rounded to the nearest float32 (ties to      *)
(* even).  A float32 in (0, 1] is m * 2^(e - 23) with 2^23 <= m < 2^24;    *)
(* 0.0 is [e |-> F32ZeroExp, m |-> 0].  The bits come from long division,  *)
(* so no intermediate value exceeds twice the denominator.                 *)
F32ZeroExp == -200

RECURSIVE F32Scale(_, _, _)
F32Scale(p, q, k) == IF p >= q THEN [p |-> p, k |-> k] ELSE F32Scale(2 * p, q, k + 1)

RECURSIVE F32Bits(_, _, _, _)
F32Bits(r, q, n, m) ==
    IF n = 0 THEN [r |-> r, m |-> m]
    ELSE IF 2 * r >= q THEN F32Bits(2 * r - q, q, n - 1, 2 * m + 1)
    ELSE F32Bits(2 * r, q, n - 1, 2 * m)

F32(quot) ==
    IF quot[1] = 0 THEN [e |-> F32ZeroExp, m |-> 0]
    ELSE LET s == F32Scale(quot[1], quot[2], 0)
             b == F32Bits(s.p - quot[2], quot[2], 23, 1)
             up == 2 * b.r > quot[2] \/ (2 * b.r = quot[2] /\ b.m % 2 = 1)
             m == IF up THEN b.m + 1 ELSE b.m
         IN  IF m = 2^24 THEN [e |-> 1 - s.k, m |-> 2^23] ELSE [e |-> -s.k, m |-> m]

F32Less(f, g) == f.e < g.e \/ (f.e = g.e /\ f.m < g.m)

(* iou_matrix[t, d] >= self.iou_threshold, the threshold taken as float32 *)
F32Geq(f, g) == ~F32Less(f, g)

IndexSeq(n) == [i \in 1..n |-> i]

RemoveFirst(seq, x) ==
    LET first == CHOOSE i \in 1..Len(seq) :
                     seq[i] = x /\ \A j \in 1..(i - 1) : seq[j] # x
    IN  IF \E i \in 1..Len(seq) : seq[i] = x
        THEN SubSeq(seq, 1, first - 1) \o SubSeq(seq, first + 1, Len(seq))
        ELSE seq

(* _associate..., lines 225-228: the candidate list in enumeration order,  *)
(* track index first.  Indices are 1-based here, 0-based in the code.      *)
Candidates(detections, tracks) ==
    LET n == Len(tracks)
        m == Len(detections)
        all == [k \in 1..(n * m) |->
                  LET t == ((k - 1) \div m) + 1
                      d == ((k - 1) % m) + 1
                  IN  [t |-> t, d |-> d,
                       iou |-> F32(_iou(tracks[t].bbox, DetBox(detections[d])))]]
        Keep(c) == F32Geq(c.iou, F32(iou_threshold))
    IN  SelectSeq(all, Keep)

(* list.sort(key=iou, reverse=True): stable, equal keys keep their order *)
RECURSIVE SortByIouDesc(_, _, _)
SortByIouDesc(matches, i, sorted) ==
    IF i > Len(matches)
    THEN sorted
    ELSE LET c == matches[i]
             smaller == {j \in 1..Len(sorted) : F32Less(sorted[j].iou, c.iou)}
             at == IF smaller = {} THEN Len(sorted) + 1
                   ELSE CHOOSE j \in smaller : \A k \in smaller : j <= k
         IN  SortByIouDesc(matches, i + 1,
                           SubSeq(sorted, 1, at - 1) \o <<c>> \o SubSeq(sorted, at, Len(sorted)))

(* Variant of GreedyMatch: an accepted detection stays in unmatched_dets *)
RECURSIVE GreedyMatch_DetKept(_, _, _)
GreedyMatch_DetKept(matches, i, acc) ==
    IF i > Len(matches)
    THEN acc
    ELSE LET c == matches[i]
         IN  IF c.t \in SeqToSet(acc.unmatched_tracks) /\ c.d \in SeqToSet(acc.unmatched_dets)
             THEN GreedyMatch_DetKept(matches, i + 1,
                      [matched |-> Append(acc.matched, <<c.t, c.d>>),
                       unmatched_tracks |-> RemoveFirst(acc.unmatched_tracks, c.t),
                       unmatched_dets |-> acc.unmatched_dets])
             ELSE GreedyMatch_DetKept(matches, i + 1, acc)

(* _associate..., lines 232-236: greedy acceptance *)
RECURSIVE GreedyMatch(_, _, _)
GreedyMatch(matches, i, acc) ==
    IF i > Len(matches)
    THEN acc
    ELSE LET c == matches[i]
         IN  IF c.t \in SeqToSet(acc.unmatched_tracks) /\ c.d \in SeqToSet(acc.unmatched_dets)
             THEN GreedyMatch(matches, i + 1,
                      [matched |-> Append(acc.matched, <<c.t, c.d>>),
                       unmatched_tracks |-> RemoveFirst(acc.unmatched_tracks, c.t),
                       unmatched_dets |-> RemoveFirst(acc.unmatched_dets, c.d)])
             ELSE GreedyMatch(matches, i + 1, acc)

(* ByteTracker._associate_detections_to_trackers *)
_associate_detections_to_trackers(detections, tracks) ==
    IF Len(tracks) = 0
    THEN [matched |-> << >>, unmatched_tracks |-> << >>,
          unmatched_dets |-> IndexSeq(Len(detections))]
    ELSE IF Len(detections) = 0
    THEN [matched |-> << >>, unmatched_tracks |-> IndexSeq(Len(tracks)),
          unmatched_dets |-> << >>]
    ELSE GreedyMatch(SortByIouDesc(Candidates(detections, tracks), 1, << >>), 1,
                     [matched |-> << >>,
                      unmatched_tracks |-> IndexSeq(Len(tracks)),
                      unmatched_dets |-> IndexSeq(Len(detections))])

(* variant: a detection at exactly high_thresh is not high-confidence *)
HighConfDets_Strict(detections) ==
    LET IsHigh(d) == d[5] > high_thresh
    IN  SelectSeq(detections, IsHigh)

(* update, lines 97-99: the two confidence tiers *)
HighConfDets(detections) ==
    LET IsHigh(d) == d[5] >= high_thresh
    IN  SelectSeq(detections, IsHigh)

(* variant: every detection at or above track_thresh is in the low tier *)
LowConfDets_IncludesHigh(detections) ==
    LET IsLow(d) == d[5] >= track_thresh
    IN  SelectSeq(detections, IsLow)

LowConfDets(detections) ==
    LET IsLow(d) == d[5] < high_thresh /\ d[5] >= track_thresh
    IN  SelectSeq(detections, IsLow)

(* update, lines 101-103 *)
AgeTracked(tracks) ==
    [i \in 1..Len(tracks) |->
        [tracks[i] EXCEPT !.time_since_update = tracks[i].time_since_update + 1]]

(* update, lines 110-114 and 152-157: Track.update on the matched tracks *)
ApplyMatches(tracks, dets, matched) ==
    [i \in 1..Len(tracks) |->
        IF \E k \in 1..Len(matched) : matched[k][1] = i
        THEN LET k == CHOOSE k \in 1..Len(matched) : matched[k][1] = i
                 det == dets[matched[k][2]]
             IN  TrackUpdate(tracks[i], DetBox(det), det[5])
        ELSE tracks[i]]

(* the elements of seq at the given indices, in the order of the indices *)
Pick(seq, indices) == [k \in 1..Len(indices) |-> seq[indices[k]]]

(* the elements of seq whose index is not in the set, in order *)
RECURSIVE Without(_, _, _)
Without(seq, drop, i) ==
    IF i > Len(seq) THEN << >>
    ELSE IF i \in drop THEN Without(seq, drop, i + 1)
    ELSE <<seq[i]>> \o Without(seq, drop, i + 1)

(* variant: every unmatched track is moved to the lost set, whatever its age *)
SplitUnmatched_AllLost(tracks, unmatched_tracks, maxage) ==
    [tracks_to_remove |-> << >>,
     tracks_to_lose |-> Pick(tracks, unmatched_tracks),
     kept |-> Without(tracks, SeqToSet(unmatched_tracks), 1)]

(* variant: the tracks to lose are appended to the lost list but also stay *)
(* in the tracked list                                                     *)
SplitUnmatched_StayTracked(tracks, unmatched_tracks, maxage) ==
    LET IsOld(t) == t.time_since_update > maxage
        IsYoung(t) == ~IsOld(t)
        unmatched == Pick(tracks, unmatched_tracks)
    IN  [tracks_to_remove |-> SelectSeq(unmatched, IsOld),
         tracks_to_lose |-> SelectSeq(unmatched, IsYoung),
         kept |-> tracks]

(* update, lines 116-136: the unmatched tracked tracks leave the tracked   *)
(* list, the ones older than max_age for removed_tracks, the others for    *)
(* lost_tracks                                                             *)
SplitUnmatched(tracks, unmatched_tracks, maxage) ==
    LET IsOld(t) == t.time_since_update > maxage
        IsYoung(t) == ~IsOld(t)
        unmatched == Pick(tracks, unmatched_tracks)
    IN  [tracks_to_remove |-> SelectSeq(unmatched, IsOld),
         tracks_to_lose |-> SelectSeq(unmatched, IsYoung),
         kept |-> Without(tracks, SeqToSet(unmatched_tracks), 1)]

(* variant: the tracks to lose are dropped instead of appended *)
AppendLost_Dropped(lost, tracks_to_lose) == lost

(* update, lines 129-132: self.lost_tracks.append(track) for each track to *)
(* lose, before the association of the lost tracks                         *)
AppendLost(lost, tracks_to_lose) == lost \o tracks_to_lose

(* Variant of CreateTracks: next_id advances once per call, not once per track *)
CreateTracks_OneIdPerCall(high_conf_dets, unmatched_dets, first_id) ==
    LET IsHigh(d) == d[5] >= high_thresh
        dets == SelectSeq(Pick(high_conf_dets, unmatched_dets), IsHigh)
    IN  [tracks |-> [k \in 1..Len(dets) |->
                        NewTrack(first_id, DetBox(dets[k]), dets[k][5])],
         next_id |-> IF Len(dets) > 0 THEN first_id + 1 ELSE first_id]

(* update, lines 138-144: one new track per unmatched high-confidence detection *)
CreateTracks(high_conf_dets, unmatched_dets, first_id) ==
    LET IsHigh(d) == d[5] >= high_thresh
        dets == SelectSeq(Pick(high_conf_dets, unmatched_dets), IsHigh)
    IN  [tracks |-> [k \in 1..Len(dets) |->
                        NewTrack(first_id + k - 1, DetBox(dets[k]), dets[k][5])],
         next_id |-> first_id + Len(dets)]

TrackTuple(track) ==
    <<track.bbox[1], track.bbox[2], track.bbox[3], track.bbox[4],
      track.track_id, track.conf>>

(* Variant of OutputTracks: lost tracks are emitted as well *)
OutputTracks_WithLost(tracked, lost, minhits) ==
    LET Confirmed(t) == t.hits >= minhits
        out == SelectSeq(tracked \o lost, Confirmed)
    IN  [k \in 1..Len(out) |-> TrackTuple(out[k])]

(* Variant of OutputTracks: the hit-count test is strict *)
OutputTracks_Strict(tracked, lost, minhits) ==
    LET Confirmed(t) == t.hits > minhits
        out == SelectSeq(tracked, Confirmed)
    IN  [k \in 1..Len(out) |-> TrackTuple(out[k])]

(* update, lines 168-175: the confirmed tracked tracks *)
OutputTracks(tracked, lost, minhits) ==
    LET Confirmed(t) == t.hits >= minhits
        out == SelectSeq(tracked, Confirmed)
    IN  [k \in 1..Len(out) |-> TrackTuple(out[k])]

(* ByteTracker.update as a function of the state before the call *)
TrackerUpdateResult(tracked, lost, removed, first_id, maxage, minhits, detections) ==
    LET high_conf_dets == HighConfDets(detections)
        low_conf_dets == LowConfDets(detections)
        aged == AgeTracked(tracked)
        a1 == _associate_detections_to_trackers(high_conf_dets, aged)
        updated == ApplyMatches(aged, high_conf_dets, a1.matched)
        IsYoung(t) == t.time_since_update <= maxage
        split == SplitUnmatched(updated, a1.unmatched_tracks, maxage)
        tracks_to_remove == split.tracks_to_remove
        tracks_to_lose == split.tracks_to_lose
        kept == split.kept
        created == CreateTracks(high_conf_dets, a1.unmatched_dets, first_id)
        lost1 == AppendLost(lost, tracks_to_lose)
        a2 == _associate_detections_to_trackers(low_conf_dets, lost1)
        revived == ApplyMatches(lost1, low_conf_dets, a2.matched)
        tracks_to_reactivate == [k \in 1..Len(a2.matched) |-> revived[a2.matched[k][1]]]
        lost2 == Without(lost1, {a2.matched[k][1] : k \in 1..Len(a2.matched)}, 1)
        tracked2 == (kept \o created.tracks) \o tracks_to_reactivate
        lost3 == SelectSeq(lost2, IsYoung)
    IN  [tracked |-> tracked2,
         lost |-> lost3,
         removed |-> removed \o tracks_to_remove,
         next_id |-> created.next_id,
         new_ids |-> [k \in 1..Len(created.tracks) |-> created.tracks[k].track_id],
         matched_ids |-> {aged[a1.matched[k][1]].track_id : k \in 1..Len(a1.matched)}
                           \cup {lost1[a2.matched[k][1]].track_id : k \in 1..Len(a2.matched)},
         output |-> OutputTracks(tracked2, lost3, minhits)]

-----------------------------------------------------------------------------
(* Bounds of the counter runs *)

MaxEvents == 2      \* an update is taken only while the log stays this short
MaxAbsent == 1      \* general run: an id stays away at most this many calls in a row
MaxUnseen == 32     \* purge run: an id stays away at most this many calls in a row
MaxFed == 5         \* scenario run: number of update calls

CounterIds == {7, 8}
CounterXs == {29, 49, 50, 71}
ScenarioXs == {30, 40, 60, 65, 90}
PurgeXs == {40, 60, 90}
Timestamps == {1}

(* An active track as the tracker emits it: (x1, y1, x2, y2, track_id, conf), *)
(* here a 20x20 box centred at (x, 50).                                     *)
TrackAt(x, id) == <<x - 10, 40, x + 10, 60, id, 90>>

(* Lists of active tracks with pairwise distinct ids, up to two tracks *)
TrackLists(ids, xs) ==
    {<< >>}
    \cup {<<TrackAt(x, id)>> : x \in xs, id \in ids}
    \cup {<<TrackAt(p[1], q[1]), TrackAt(p[2], q[2])>> :
            p \in xs \X xs, q \in {r \in ids \X ids : r[1] # r[2]}}

(* A Python list object held by the caller: its items, and whether it is  *)
(* the very object self.counting_history (shared) or a separate one.       *)
NoList == [shared |-> FALSE, items |-> << >>]

(* LineCounter.__init__ *)
CounterInit(ls, le, dir) ==
    /\ line_start = ls
    /\ line_end = le
    /\ direction = dir
    /\ track_positions = EmptyMap
    /\ track_sides = EmptyMap
    /\ track_crossed = EmptyMap
    /\ track_lost_frames = EmptyMap
    /\ total_enter = 0
    /\ total_exit = 0
    /\ current_occupancy = 0
    /\ counting_history = << >>
    /\ unseen = [id \in CounterIds |-> -1]
    /\ fed = << >>
    /\ last_call = "__init__"
    /\ episode = EmptyMap
    /\ returned_history = NoList
    /\ seen_far = EmptyMap
    /\ last_center = EmptyMap
    /\ reappeared = EmptyMap
    /\ mirror = NewCounterState
    /\ on_line = FALSE

(* Squared length of the move from p to q *)
MoveSq(p, q) == (q[1] - p[1]) * (q[1] - p[1]) + (q[2] - p[2]) * (q[2] - p[2])

(* The re-arm condition seen from outside: the id was known, is on the     *)
(* same side of the line as at its last sighting, farther from the line    *)
(* than crossing_reset_distance, and moved at least min_crossing_distance. *)
RearmCondition(ls, le, old_pos, new_pos) ==
    LET old_d == point_to_line_distance(ls, le, old_pos)
        new_d == point_to_line_distance(ls, le, new_pos)
    IN  /\ (old_d.num < 0) = (new_d.num < 0)
        /\ new_d.num * new_d.num
              > crossing_reset_distance * crossing_reset_distance * new_d.den2
        /\ MoveSq(old_pos, new_pos) >= min_crossing_distance * min_crossing_distance

(* The point is farther than crossing_reset_distance from the line *)
FarFromLine(ls, le, point) ==
    LET d == point_to_line_distance(ls, le, point)
    IN  d.num * d.num > crossing_reset_distance * crossing_reset_distance * d.den2

(* The ids of the events appended to hist to give hist2 *)
LoggedIds(hist, hist2) == {hist2[k].track_id : k \in (Len(hist) + 1)..Len(hist2)}

(* LineCounter.update(tracks, timestamp).  absentCap bounds the run: no id *)
(* stays away more than absentCap calls in a row.                          *)
LineCounterUpdate(tracks, timestamp, absentCap) ==
    /\ \A id \in CounterIds \ TrackIdsOf(tracks) : unseen[id] < absentCap
    /\ \E r \in {UpdateResult(CounterState, line_start, line_end, direction,
                               tracks, timestamp)} :
        /\ Len(r.hist) <= MaxEvents
        /\ track_positions' = r.pos
        /\ track_sides' = r.sides
        /\ track_crossed' = r.crossed
        /\ track_lost_frames' = r.lost
        /\ total_enter' = r.te
        /\ total_exit' = r.tx
        /\ current_occupancy' = r.occ
        /\ counting_history' = r.hist
    /\ unseen' = [id \in CounterIds |->
                     IF id \in TrackIdsOf(tracks) THEN 0
                     ELSE IF unseen[id] = -1 THEN -1 ELSE unseen[id] + 1]
    /\ last_call' = "update"
    /\ episode' = [id \in DOMAIN track_positions' |->
                      IF id \in LoggedIds(counting_history, counting_history') THEN TRUE
                      ELSE IF /\ id \in TrackIdsOf(tracks)
                              /\ id \in DOMAIN track_positions
                              /\ RearmCondition(line_start, line_end,
                                                track_positions[id], track_positions'[id])
                           THEN FALSE
                      ELSE MapGet(episode, id, FALSE)]
    /\ returned_history' = IF returned_history.shared
                           THEN [returned_history EXCEPT !.items = counting_history']
                           ELSE returned_history
    /\ seen_far' = [id \in DOMAIN track_positions' |->
                       IF id \in LoggedIds(counting_history, counting_history') THEN FALSE
                       ELSE IF /\ id \in TrackIdsOf(tracks)
                               /\ MapGet(track_crossed, id, FALSE)
                               /\ FarFromLine(line_start, line_end, track_positions'[id])
                            THEN TRUE
                       ELSE MapGet(seen_far, id, FALSE)]
    /\ last_center' = [id \in DOMAIN track_positions' |->
                          IF id \in TrackIdsOf(tracks)
                          THEN TrackCenter(tracks[CHOOSE i \in 1..Len(tracks) :
                                                     tracks[i][5] = id])
                          ELSE last_center[id]]
    /\ UNCHANGED <<line_start, line_end, direction>>

(* General run: two ids around the line x = 50 *)
CounterUpdate ==
    \E tracks \in TrackLists(CounterIds, CounterXs), timestamp \in Timestamps :
        /\ LineCounterUpdate(tracks, timestamp, MaxAbsent)
        /\ UNCHANGED <<fed, reappeared>>

(* Purge run: one id that may stay away long enough to be purged *)
PurgeUpdate ==
    \E tracks \in TrackLists({7}, PurgeXs), timestamp \in Timestamps :
        /\ unseen[8] = -1
        /\ LineCounterUpdate(tracks, timestamp, MaxUnseen)
        /\ reappeared' = [id \in DOMAIN track_positions' |->
                             IF id \in TrackIdsOf(tracks)
                             THEN IF id \notin DOMAIN track_lost_frames THEN "no"
                                  ELSE IF id \in LoggedIds(counting_history,
                                                           counting_history')
                                       THEN "counted"
                                  ELSE "uncounted"
                             ELSE MapGet(reappeared, id, "no")]
        /\ UNCHANGED fed

OneXs == {29, 30, 49, 50, 51, 70, 71}

(* Single-track run: one id on both sides of the thresholds of 2 and 20 px *)
OneUpdate ==
    \E tracks \in TrackLists({7}, OneXs), timestamp \in Timestamps :
        /\ LineCounterUpdate(tracks, timestamp, MaxAbsent)
        /\ UNCHANGED <<fed, reappeared>>

OpsXs == {49, 50, 51}
MaxReturned == 3    \* longest list the caller makes of a returned history

(* Run of the near-line xs, from which no re-arm is possible *)
OpsUpdate ==
    /\ \E tracks \in TrackLists({7}, OpsXs), timestamp \in Timestamps :
          LineCounterUpdate(tracks, timestamp, MaxAbsent)
    /\ UNCHANGED <<fed, reappeared, trackerVars, iouVars, assocVars, mirrorVars, apiVars>>

(* LineCounter.reset_counting_flags() *)
ResetCountingFlags ==
    /\ \E r \in {reset_counting_flags(CounterState)} :
        /\ track_positions' = r.pos
        /\ track_sides' = r.sides
        /\ track_crossed' = r.crossed
        /\ track_lost_frames' = r.lost
        /\ total_enter' = r.te
        /\ total_exit' = r.tx
        /\ current_occupancy' = r.occ
        /\ counting_history' = r.hist
    /\ last_call' = "reset_counting_flags"
    /\ episode' = [id \in DOMAIN episode |-> FALSE]
    /\ seen_far' = [id \in DOMAIN seen_far |-> FALSE]
    /\ UNCHANGED <<line_start, line_end, direction, unseen, fed, returned_history,
                   last_center, reappeared, trackerVars, iouVars, assocVars, mirrorVars, apiVars>>

(* history = counter.get_history() *)
GetHistory ==
    /\ returned_history' = get_history(counting_history)
    /\ last_call' = "get_history"
    /\ UNCHANGED <<line_start, line_end, direction, track_positions, track_sides,
                   track_crossed, track_lost_frames, total_enter, total_exit,
                   current_occupancy, counting_history, unseen, fed, episode, seen_far,
                   last_center, reappeared, trackerVars, iouVars, assocVars, mirrorVars, apiVars>>

(* an element the caller puts into the list it was given *)
ForeignEvent ==
    [timestamp |-> 0, track_id |-> 0, direction |-> "exit",
     total_enter |-> 0, total_exit |-> 0]

(* The caller appends an element to the list it holds, or removes the last *)
(* one.  A list that is the counter's own object changes the log with it.  *)
CallerEdit ==
    /\ \E items2 \in {Append(returned_history.items, ForeignEvent)}
                      \cup (IF returned_history.items = << >> THEN {}
                            ELSE {SubSeq(returned_history.items, 1,
                                         Len(returned_history.items) - 1)}) :
        /\ Len(items2) <= MaxReturned
        /\ returned_history' = [returned_history EXCEPT !.items = items2]
        /\ counting_history' = IF returned_history.shared THEN items2
                               ELSE counting_history
    /\ last_call' = "caller_edit"
    /\ UNCHANGED <<line_start, line_end, direction, track_positions, track_sides,
                   track_crossed, track_lost_frames, total_enter, total_exit,
                   current_occupancy, unseen, fed, episode, seen_far,
                   last_center, reappeared, trackerVars, iouVars, assocVars, mirrorVars, apiVars>>

MainXs == {29, 49, 51, 71}

(* Run of main: updates of two ids, and the 'r' key between them *)
MainUpdate ==
    /\ \E tracks \in TrackLists(CounterIds, MainXs), timestamp \in Timestamps :
          LineCounterUpdate(tracks, timestamp, MaxAbsent)
    /\ UNCHANGED <<fed, reappeared, trackerVars, iouVars, assocVars, mirrorVars, apiVars>>

(* the 'r' key of main; the log is cleared in place, so a list that is the *)
(* counter's own object is emptied with it                                 *)
KeyReset ==
    /\ \E r \in {key_reset(CounterState)} :
        /\ track_positions' = r.pos
        /\ track_sides' = r.sides
        /\ track_crossed' = r.crossed
        /\ track_lost_frames' = r.lost
        /\ total_enter' = r.te
        /\ total_exit' = r.tx
        /\ current_occupancy' = r.occ
        /\ counting_history' = r.hist
    /\ last_call' = "key_reset"
    /\ episode' = [id \in DOMAIN episode |-> FALSE]
    /\ seen_far' = [id \in DOMAIN seen_far |-> FALSE]
    /\ returned_history' = IF returned_history.shared
                           THEN [returned_history EXCEPT !.items = << >>]
                           ELSE returned_history
    /\ UNCHANGED <<line_start, line_end, direction, unseen, fed,
                   last_center, reappeared, trackerVars, iouVars, assocVars, mirrorVars, apiVars>>

(* Lines of the line run: x = 50 drawn downwards and upwards, a diagonal,  *)
(* and a degenerate line with line_start = line_end                        *)
LineConfigs ==
    {<<<<50, 0>>, <<50, 100>>>>, <<<<50, 100>>, <<50, 0>>>>,
     <<<<0, 0>>, <<100, 100>>>>, <<<<50, 50>>, <<50, 50>>>>}
Directions == {"horizontal", "vertical"}
LineXs == {29, 49, 50, 51, 71}

(* Line run: one id, on any of the lines with either direction *)
LinesUpdate ==
    \E tracks \in TrackLists({7}, LineXs), timestamp \in Timestamps :
        /\ LineCounterUpdate(tracks, timestamp, MaxAbsent)
        /\ UNCHANGED <<fed, reappeared>>

MirrorLines ==
    {<<<<50, 0>>, <<50, 100>>>>, <<<<50, 100>>, <<50, 0>>>>, <<<<0, 0>>, <<100, 100>>>>}
MirrorXs == {29, 48, 50, 52, 71}

(* Mirror run: the same tracks are given to the counter and to a counter   *)
(* built with line_start and line_end swapped                              *)
MirrorUpdate ==
    \E tracks \in TrackLists({7}, MirrorXs), timestamp \in Timestamps :
        /\ LineCounterUpdate(tracks, timestamp, MaxAbsent)
        /\ \E r \in {UpdateResult(mirror, line_end, line_start, direction,
                                   tracks, timestamp)} :
              /\ Len(r.hist) <= MaxEvents
              /\ mirror' = r
        /\ on_line' = (on_line \/ \E i \in 1..Len(tracks) :
                          point_to_line_distance(line_start, line_end,
                                                 TrackCenter(tracks[i])).num = 0)
        /\ UNCHANGED <<fed, reappeared>>

(* Scenario run: one id, every call recorded; the timestamp is the call number *)
ScenarioUpdate ==
    \E tracks \in TrackLists({7}, ScenarioXs) :
        /\ Len(fed) < MaxFed
        /\ LineCounterUpdate(tracks, Len(fed) + 1, MaxFed)
        /\ fed' = Append(fed, tracks)
        /\ UNCHANGED reappeared

-----------------------------------------------------------------------------
(* ByteTracker runs *)

MaxFrames == 4      \* number of ByteTracker.update calls

BoxA == <<0, 0, 10, 10>>
BoxB == <<2, 0, 12, 10>>      \* IoU with BoxA: 80/120
BoxD == <<40, 0, 50, 10>>     \* disjoint from BoxA and BoxB

Det(box, conf) == <<box[1], box[2], box[3], box[4], conf>>

TrackerDets == {Det(BoxA, 60), Det(BoxB, 50), Det(BoxD, 60), Det(BoxA, 40)}

(* Detection lists of one frame: up to two different detections *)
DetLists(dets) ==
    {<< >>} \cup {<<d>> : d \in dets}
            \cup {<<p[1], p[2]>> : p \in {q \in dets \X dets : q[1] # q[2]}}

(* ByteTracker.__init__ *)
TrackerInit(maxage, minhits) ==
    /\ max_age = maxage
    /\ min_hits = minhits
    /\ tracked_tracks = << >>
    /\ lost_tracks = << >>
    /\ removed_tracks = << >>
    /\ frame_count = 0
    /\ next_id = 1
    /\ output_tracks = << >>
    /\ created_ids = << >>
    /\ since_match = EmptyMap
    /\ last_detections = << >>
    /\ lost_before = {}
    /\ appended = EmptyMap

(* ByteTracker.update(detections), taken while frame_count < frameCap *)
ByteTrackerUpdate(detections, frameCap) ==
    /\ frame_count < frameCap
    /\ frame_count' = frame_count + 1
    /\ \E r \in {TrackerUpdateResult(tracked_tracks, lost_tracks, removed_tracks,
                                      next_id, max_age, min_hits, detections)} :
        /\ tracked_tracks' = r.tracked
        /\ lost_tracks' = r.lost
        /\ removed_tracks' = r.removed
        /\ next_id' = r.next_id
        /\ output_tracks' = r.output
        /\ created_ids' = created_ids \o r.new_ids
        /\ since_match' = [id \in (DOMAIN since_match) \cup SeqToSet(r.new_ids) |->
                              IF id \in SeqToSet(r.new_ids) \cup r.matched_ids
                              THEN 0 ELSE since_match[id] + 1]
    /\ UNCHANGED <<max_age, min_hits>>

TrackerUpdate ==
    /\ \E detections \in DetLists(TrackerDets) : ByteTrackerUpdate(detections, MaxFrames)
    /\ UNCHANGED <<last_detections, lost_before, appended, counterVars, iouVars, assocVars, mirrorVars, apiVars>>

MaxAgingFrames == 33    \* number of ByteTracker.update calls of the aging run

(* Aging run: one person is detected at BoxA for some frames, then never   *)
(* again; the run goes on past max_age frames.                             *)
AgingUpdate ==
    /\ \E detections \in (IF lost_tracks = << >>
                           THEN {<< >>, <<Det(BoxA, 60)>>} ELSE {<< >>}) :
          ByteTrackerUpdate(detections, MaxAgingFrames)
    /\ UNCHANGED <<last_detections, lost_before, appended, counterVars, iouVars, assocVars, mirrorVars, apiVars>>

MaxStepFrames == 4  \* number of ByteTracker.update calls of the step run

StepMaxAges == {0, default_max_age}

(* Detection lists of the step run: BoxA at high_thresh, BoxB (overlapping *)
(* BoxA) at track_thresh, BoxD away from both, BoxA below track_thresh     *)
StepDetLists ==
    {<< >>, <<Det(BoxA, 60)>>, <<Det(BoxB, 50)>>, <<Det(BoxD, 60)>>, <<Det(BoxA, 40)>>,
     <<Det(BoxA, 60), Det(BoxD, 60)>>, <<Det(BoxB, 50), Det(BoxA, 60)>>}

(* Step run: every call records its argument and the ids that were lost   *)
(* when it began                                                           *)
StepUpdate ==
    /\ \E detections \in StepDetLists :
          /\ ByteTrackerUpdate(detections, MaxStepFrames)
          /\ last_detections' = detections
          /\ lost_before' = {lost_tracks[i].track_id : i \in 1..Len(lost_tracks)}
    /\ UNCHANGED <<appended, counterVars, iouVars, assocVars, mirrorVars, apiVars>>

MaxWalkFrames == 33 \* number of ByteTracker.update calls of the walk run

WalkStarts == {BoxA, BoxD}
WalkConfs == {track_thresh, high_thresh}

StepRight(bbox) == <<bbox[1] + 1, bbox[2], bbox[3] + 1, bbox[4]>>

(* Walk run: one person appears at some frame and is then detected in every *)
(* frame one pixel further to the right, at high or at low confidence; each *)
(* call records the center it appends to a track's history                  *)
WalkUpdate ==
    /\ \E detections \in
            (IF tracked_tracks = << >>
             THEN {<< >>} \cup {<<Det(b, high_thresh)>> : b \in WalkStarts}
             ELSE {<<Det(StepRight(tracked_tracks[1].bbox), c)>> : c \in WalkConfs}) :
          /\ ByteTrackerUpdate(detections, MaxWalkFrames)
          /\ appended' =
                [id \in {tracked_tracks'[i].track_id : i \in 1..Len(tracked_tracks')} |->
                    LET t == CHOOSE u \in SeqToSet(tracked_tracks') : u.track_id = id
                    IN  IF since_match'[id] = 0
                        THEN Append(MapGet(appended, id, << >>), BoxCenter(t.bbox))
                        ELSE appended[id]]
    /\ UNCHANGED <<last_detections, lost_before, counterVars, iouVars, assocVars, mirrorVars, apiVars>>

-----------------------------------------------------------------------------
(* Calls of the pure functions *)

GridMax == 2        \* box corners lie on the grid 0..GridMax
MaxAssoc == 2       \* number of tracks and of detections in one association call

GridBoxes ==
    {b \in (0..GridMax) \X (0..GridMax) \X (0..GridMax) \X (0..GridMax) :
        b[1] <= b[3] /\ b[2] <= b[4]}

BoxC == <<6, 0, 16, 10>>      \* IoU with BoxA: 40/160, with BoxB: 60/140

(* IoU with BoxG: BoxE 2700/5033, BoxF 2597/4841.  The second is larger   *)
(* by 1/(5033 * 4841); both are 9000295 * 2^-24 as float32.                *)
BoxE == <<10, 9, 69, 76>>
BoxF == <<11, 10, 70, 72>>
BoxG == <<0, 0, 60, 63>>

AssocBoxes == {BoxA, BoxB, BoxC, BoxD}
AssocTrackBoxes == AssocBoxes \cup {BoxE, BoxF}
AssocDetBoxes == AssocBoxes \cup {BoxG}

(* Boxes larger than an 8K frame: BoxI lies inside BoxH and their IoU,     *)
(* 10140728/33802427, is below 3/10 by less than half a float32 step       *)
BoxH == <<0, 0, 5801, 5827>>
BoxI == <<0, 0, 2248, 4511>>
LargeTrackBoxes == {BoxH, BoxA, BoxD}
LargeDetBoxes == {BoxI, BoxB, BoxD}

NoAssocResult == [matched |-> << >>, unmatched_tracks |-> << >>, unmatched_dets |-> << >>]

SeqsUpTo(S, n) == UNION {[1..k -> S] : k \in 0..n}

IouInit ==
    /\ iou_box1 \in GridBoxes
    /\ iou_box2 \in GridBoxes
    /\ iou_result = <<0, 1>>
    /\ iou_pc = "call"

(* one call _iou(box1, box2) *)
ComputeIou ==
    /\ iou_pc = "call"
    /\ iou_pc' = "done"
    /\ iou_result' = _iou(iou_box1, iou_box2)
    /\ UNCHANGED <<iou_box1, iou_box2, counterVars, trackerVars, assocVars, mirrorVars, apiVars>>

AssocInit ==
    /\ assoc_detections \in SeqsUpTo({Det(b, 90) : b \in AssocDetBoxes}, MaxAssoc)
    /\ assoc_tracks \in SeqsUpTo({NewTrack(0, b, 90) : b \in AssocTrackBoxes}, MaxAssoc)
    /\ assoc_result = NoAssocResult
    /\ assoc_pc = "call"

AssocLargeInit ==
    /\ assoc_detections \in SeqsUpTo({Det(b, 90) : b \in LargeDetBoxes}, MaxAssoc)
    /\ assoc_tracks \in SeqsUpTo({NewTrack(0, b, 90) : b \in LargeTrackBoxes}, MaxAssoc)
    /\ assoc_result = NoAssocResult
    /\ assoc_pc = "call"

(* one call _associate_detections_to_trackers(detections, tracks) *)
ComputeAssoc ==
    /\ assoc_pc = "call"
    /\ assoc_pc' = "done"
    /\ assoc_result' = _associate_detections_to_trackers(assoc_detections, assoc_tracks)
    /\ UNCHANGED <<assoc_detections, assoc_tracks, counterVars, trackerVars, iouVars, mirrorVars, apiVars>>

IouIdle ==
    /\ iou_box1 = <<0, 0, 0, 0>>
    /\ iou_box2 = <<0, 0, 0, 0>>
    /\ iou_result = <<0, 1>>
    /\ iou_pc = "call"

AssocIdle ==
    /\ assoc_detections = << >>
    /\ assoc_tracks = << >>
    /\ assoc_result = NoAssocResult
    /\ assoc_pc = "call"

-----------------------------------------------------------------------------
(* backend/api.py: one uploaded job *)

MaxPosts == 3       \* number of POST /api/process/{job_id} requests
MaxJobFrames == 2   \* number of frames of the uploaded video

(* upload_video, lines 254-265: the job is entered as queued *)
JobUploaded ==
    /\ job_status = "queued"
    /\ job_tasks = << >>
    /\ post_responses = << >>

(* start_processing, lines 276-297.  The handler has no await, so it runs  *)
(* as one step of the event loop: it answers 400 if the status is          *)
(* "processing", otherwise it adds a process_video task and answers 200.   *)
(* It does not change the status.                                          *)
StartProcessing ==
    /\ Len(post_responses) < MaxPosts
    /\ IF job_status = "processing"
       THEN /\ post_responses' = Append(post_responses, 400)
            /\ UNCHANGED job_tasks
       ELSE /\ post_responses' = Append(post_responses, 200)
            /\ job_tasks' = Append(job_tasks, [pc |-> "added", frames |-> 0])
    /\ UNCHANGED <<job_status, counterVars, trackerVars, iouVars, assocVars, mirrorVars>>

(* process_video, line 99: a task added earlier starts in a worker thread  *)
(* and sets the status to "processing"                                     *)
TaskBegin(i) ==
    /\ job_tasks[i].pc = "added"
    /\ job_tasks' = [job_tasks EXCEPT ![i].pc = "initializing"]
    /\ job_status' = "processing"
    /\ UNCHANGED <<post_responses, counterVars, trackerVars, iouVars, assocVars, mirrorVars>>

(* process_video, lines 102-139: the video is opened and the writer of     *)
(* {job_id}_output.mp4 is created                                          *)
TaskOpen(i) ==
    /\ job_tasks[i].pc = "initializing"
    /\ job_tasks' = [job_tasks EXCEPT ![i].pc = "writing"]
    /\ UNCHANGED <<job_status, post_responses,
                   counterVars, trackerVars, iouVars, assocVars, mirrorVars>>

(* process_video, lines 219-222: an exception (the video cannot be opened, *)
(* a frame cannot be processed) ends the task with the status "error"      *)
TaskFail(i) ==
    /\ job_tasks[i].pc \in {"initializing", "writing"}
    /\ job_tasks' = [job_tasks EXCEPT ![i].pc = "failed"]
    /\ job_status' = "error"
    /\ UNCHANGED <<post_responses, counterVars, trackerVars, iouVars, assocVars, mirrorVars>>

(* process_video, lines 142-196: one frame is read, processed and written  *)
TaskFrame(i) ==
    /\ job_tasks[i].pc = "writing"
    /\ job_tasks[i].frames < MaxJobFrames
    /\ job_tasks' = [job_tasks EXCEPT ![i].frames = @ + 1]
    /\ UNCHANGED <<job_status, post_responses,
                   counterVars, trackerVars, iouVars, assocVars, mirrorVars>>

(* process_video, lines 143-144 and 198-217: no frame is left, the writer  *)
(* is released and the status becomes "completed"                          *)
TaskFinish(i) ==
    /\ job_tasks[i].pc = "writing"
    /\ job_tasks[i].frames = MaxJobFrames
    /\ job_tasks' = [job_tasks EXCEPT ![i].pc = "completed"]
    /\ job_status' = "completed"
    /\ UNCHANGED <<post_responses, counterVars, trackerVars, iouVars, assocVars, mirrorVars>>

TaskStep ==
    \E i \in 1..Len(job_tasks) :
        TaskBegin(i) \/ TaskOpen(i) \/ TaskFail(i) \/ TaskFrame(i) \/ TaskFinish(i)

ApiNext == StartProcessing \/ TaskStep

-----------------------------------------------------------------------------
(* Specifications *)

InitCounter == CounterInit(<<50, 0>>, <<50, 100>>, "vertical")
InitTracker == TrackerInit(default_max_age, default_min_hits)

Init == InitCounter /\ InitTracker /\ IouIdle /\ AssocIdle /\ JobUploaded

CounterNext == CounterUpdate /\ UNCHANGED <<trackerVars, iouVars, assocVars, mirrorVars, apiVars>>
PurgeNext == PurgeUpdate /\ UNCHANGED <<trackerVars, iouVars, assocVars, mirrorVars, apiVars>>
ScenarioNext == ScenarioUpdate /\ UNCHANGED <<trackerVars, iouVars, assocVars, mirrorVars, apiVars>>
OneNext == OneUpdate /\ UNCHANGED <<trackerVars, iouVars, assocVars, mirrorVars, apiVars>>
OpsNext == OpsUpdate \/ ResetCountingFlags \/ GetHistory \/ CallerEdit
LinesNext == LinesUpdate /\ UNCHANGED <<trackerVars, iouVars, assocVars, mirrorVars, apiVars>>
MainNext == MainUpdate \/ KeyReset
MirrorNext == MirrorUpdate /\ UNCHANGED <<trackerVars, iouVars, assocVars, apiVars>>

Spec == Init /\ [][CounterNext]_vars
SpecPurge == Init /\ [][PurgeNext]_vars
SpecScenario == Init /\ [][ScenarioNext]_vars
SpecOne == Init /\ [][OneNext]_vars
SpecMain == Init /\ [][MainNext]_vars
SpecTracker == Init /\ [][TrackerUpdate]_vars
SpecAging == Init /\ [][AgingUpdate]_vars
SpecWalk == Init /\ [][WalkUpdate]_vars

InitSteps ==
    /\ InitCounter
    /\ \E maxage \in StepMaxAges : TrackerInit(maxage, default_min_hits)
    /\ IouIdle /\ AssocIdle /\ JobUploaded

SpecSteps == InitSteps /\ [][StepUpdate]_vars
SpecOps == Init /\ [][OpsNext]_vars

InitLines ==
    /\ \E cfg \in LineConfigs, dir \in Directions : CounterInit(cfg[1], cfg[2], dir)
    /\ InitTracker /\ IouIdle /\ AssocIdle /\ JobUploaded

SpecLines == InitLines /\ [][LinesNext]_vars

InitMirror ==
    /\ \E cfg \in MirrorLines : CounterInit(cfg[1], cfg[2], "vertical")
    /\ InitTracker /\ IouIdle /\ AssocIdle /\ JobUploaded

SpecMirror == InitMirror /\ [][MirrorNext]_vars

InitIou == InitCounter /\ InitTracker /\ IouInit /\ AssocIdle /\ JobUploaded
InitAssoc == InitCounter /\ InitTracker /\ IouIdle /\ AssocInit /\ JobUploaded

SpecIou == InitIou /\ [][ComputeIou]_vars
SpecAssoc == InitAssoc /\ [][ComputeAssoc]_vars

InitAssocLarge == InitCounter /\ InitTracker /\ IouIdle /\ AssocLargeInit /\ JobUploaded
SpecAssocLarge == InitAssocLarge /\ [][ComputeAssoc]_vars

SpecApi == Init /\ [][ApiNext]_vars

-----------------------------------------------------------------------------
(* Properties of the LineCounter *)

(* Number of logged exits that found the occupancy at 0, replaying the log *)
RECURSIVE FlooredExits(_, _, _)
FlooredExits(hist, i, occ) ==
    IF i > Len(hist) THEN 0
    ELSE IF hist[i].direction = "enter" THEN FlooredExits(hist, i + 1, occ + 1)
    ELSE IF occ = 0 THEN 1 + FlooredExits(hist, i + 1, 0)
    ELSE FlooredExits(hist, i + 1, occ - 1)

(* C1, as stated: after every update current_occupancy equals              *)
(* max(0, total_enter - total_exit).                                       *)
C1_OccupancyIsFlooredDifference ==
    current_occupancy = Max(0, total_enter - total_exit)

(* C1, amended: after every update current_occupancy equals                *)
(* total_enter - total_exit plus the number of exits that were counted     *)
(* while the occupancy was 0 (the floor is applied at each exit, not to    *)
(* the difference of the totals); so it is never below                     *)
(* max(0, total_enter - total_exit).                                       *)
C1_OccupancyIsStepwiseFloored ==
    /\ current_occupancy
         = total_enter - total_exit + FlooredExits(counting_history, 1, 0)
    /\ current_occupancy >= Max(0, total_enter - total_exit)

C1_Witness ==
    /\ FlooredExits(counting_history, 1, 0) > 0
    /\ total_enter > 0
    /\ current_occupancy > Max(0, total_enter - total_exit)

(* The ids whose side changed in this step while they were known, not      *)
(* marked counted, and moved at least min_crossing_distance, arriving on   *)
(* the given side.                                                         *)
QualifyingCrossings(side) ==
    {id \in (DOMAIN track_positions) \cap (DOMAIN track_positions') :
        /\ track_sides[id] # track_sides'[id]
        /\ track_sides'[id] = side
        /\ ~MapGet(track_crossed, id, FALSE)
        /\ MovedAtLeast(track_positions'[id], track_positions[id], min_crossing_distance)}

(* C2: from one update call to the next, total_enter and total_exit never  *)
(* decrease, and each grows by at most the number of qualifying crossings  *)
(* (to its side) of that call.                                             *)
C2_TotalsNonDecreasing ==
    [][/\ total_enter' >= total_enter
       /\ total_exit' >= total_exit
       /\ total_enter' - total_enter <= Cardinality(QualifyingCrossings("enter"))
       /\ total_exit' - total_exit <= Cardinality(QualifyingCrossings("exit"))]_vars

C2_Witness ==
    /\ total_enter >= 1
    /\ total_exit >= 1
    /\ \E id \in DOMAIN track_crossed : track_crossed[id]

HasRecord(id) ==
    id \in (DOMAIN track_positions) \cup (DOMAIN track_sides)
           \cup (DOMAIN track_crossed) \cup (DOMAIN track_lost_frames)

(* C5, as stated: a record whose id was absent from exactly                *)
(* lost_frame_threshold consecutive update calls is gone from all four     *)
(* maps at the end of that call, and one absent from only                  *)
(* lost_frame_threshold - 1 consecutive calls is still held.               *)
C5_PurgedAtThreshold ==
    \A id \in CounterIds :
        /\ unseen[id] = lost_frame_threshold => ~HasRecord(id)
        /\ unseen[id] = lost_frame_threshold - 1 => id \in DOMAIN track_positions

(* The scenario of C6: id 7 at x = 40, 60, 65, 90, 30 *)
ScenarioFeed ==
    <<<<TrackAt(40, 7)>>, <<TrackAt(60, 7)>>, <<TrackAt(65, 7)>>,
      <<TrackAt(90, 7)>>, <<TrackAt(30, 7)>>>>

ScenarioExit ==
    [timestamp |-> 2, track_id |-> 7, direction |-> "exit",
     total_enter |-> 0, total_exit |-> 1]

ScenarioEnter ==
    [timestamp |-> 5, track_id |-> 7, direction |-> "enter",
     total_enter |-> 1, total_exit |-> 1]

(* C6: with the line (50,0)-(50,100), feeding id 7 at x = 40, 60, 65, 90,  *)
(* 30 gives: no event at 40; an exit event at 60 with total_exit 1 and     *)
(* occupancy 0; no event at 65 with the counted flag still set; the flag   *)
(* cleared at 90; an enter event at 30 with total_enter 1 and occupancy 1; *)
(* the log is exactly these two events in this order.                      *)
C6_Scenario ==
    /\ fed = SubSeq(ScenarioFeed, 1, 1) =>
          /\ counting_history = << >>
          /\ total_enter = 0 /\ total_exit = 0 /\ current_occupancy = 0
          /\ track_crossed[7] = FALSE
    /\ fed = SubSeq(ScenarioFeed, 1, 2) =>
          /\ counting_history = <<ScenarioExit>>
          /\ total_enter = 0 /\ total_exit = 1 /\ current_occupancy = 0
          /\ track_crossed[7] = TRUE
    /\ fed = SubSeq(ScenarioFeed, 1, 3) =>
          /\ counting_history = <<ScenarioExit>>
          /\ total_enter = 0 /\ total_exit = 1 /\ current_occupancy = 0
          /\ track_crossed[7] = TRUE
    /\ fed = SubSeq(ScenarioFeed, 1, 4) =>
          /\ counting_history = <<ScenarioExit>>
          /\ total_enter = 0 /\ total_exit = 1 /\ current_occupancy = 0
          /\ track_crossed[7] = FALSE
    /\ fed = ScenarioFeed =>
          /\ counting_history = <<ScenarioExit, ScenarioEnter>>
          /\ total_enter = 1 /\ total_exit = 1 /\ current_occupancy = 1
          /\ track_crossed[7] = TRUE

C6_Witness ==
    /\ fed = ScenarioFeed
    /\ Len(counting_history) = 2

-----------------------------------------------------------------------------
(* Properties of the ByteTracker *)

IdsOf(tracks) == {tracks[i].track_id : i \in 1..Len(tracks)}
OutputIds == {output_tracks[k][5] : k \in 1..Len(output_tracks)}

(* C3: track ids are handed out in strictly increasing order and never     *)
(* reused: every track created later has a larger id than every track      *)
(* created earlier, whatever became of the earlier ones, and every id held *)
(* is one that was handed out.                                             *)
C3_IdsStrictlyIncreasing ==
    /\ \A i, j \in 1..Len(created_ids) : i < j => created_ids[i] < created_ids[j]
    /\ \A i \in 1..Len(created_ids) : created_ids[i] < next_id
    /\ IdsOf(tracked_tracks) \cup IdsOf(lost_tracks) \cup IdsOf(removed_tracks)
          \subseteq SeqToSet(created_ids)

C3_Witness ==
    /\ Len(created_ids) >= 3
    /\ \E l \in SeqToSet(lost_tracks), t \in SeqToSet(tracked_tracks) :
          l.track_id < t.track_id

(* C4: every tuple returned by ByteTracker.update is the tuple of a track  *)
(* that is in the tracked set at the end of that update and has            *)
(* hits >= min_hits; no lost track is emitted.                             *)
C4_OutputOnlyConfirmedTracked ==
    \A k \in 1..Len(output_tracks) :
        /\ \E t \in SeqToSet(tracked_tracks) :
              /\ output_tracks[k] = TrackTuple(t)
              /\ t.hits >= min_hits
        /\ output_tracks[k][5] \notin IdsOf(lost_tracks)

C4_Witness ==
    /\ Len(output_tracks) >= 1
    /\ \E l \in SeqToSet(lost_tracks) : l.hits >= min_hits
    /\ \E t \in SeqToSet(tracked_tracks) : t.hits < min_hits

(* C7: with min_hits = 3, a tracked track is absent from the output of the *)
(* updates that leave its hit count at 1 or 2 and present in the output of *)
(* the update in which its 3rd hit lands.                                  *)
C7_EmittedWhenThirdHitLands ==
    min_hits = 3 =>
        \A t \in SeqToSet(tracked_tracks) :
            /\ t.hits \in {1, 2} => t.track_id \notin OutputIds
            /\ t.hits = 3 => t.track_id \in OutputIds

(* a track created in the first update and matched by a high-confidence   *)
(* detection in the two following ones                                     *)
C7_Witness ==
    /\ min_hits = 3
    /\ frame_count = 3
    /\ \E t \in SeqToSet(tracked_tracks) :
          /\ t.hits = 3
          /\ Len(t.history) = 3
          /\ t.conf >= high_thresh
          /\ TrackTuple(t) \in SeqToSet(output_tracks)

-----------------------------------------------------------------------------
(* Properties of _iou and _associate_detections_to_trackers *)

BoxArea(b) == (b[3] - b[1]) * (b[4] - b[2])

(* C8, as stated: for every valid box, zero width or height included,      *)
(* _iou(box, box) is 1.0.                                                  *)
C8_SelfIouIsOne ==
    (iou_pc = "done" /\ iou_box1 = iou_box2) => QuotEq(iou_result, <<1, 1>>)

(* C8, amended: for every valid box of positive area _iou(box, box) is     *)
(* 1.0; for a valid box of zero width or zero height it is 0.0.            *)
C8_SelfIouIsOneIfPositiveArea ==
    (iou_pc = "done" /\ iou_box1 = iou_box2) =>
        IF BoxArea(iou_box1) > 0
        THEN QuotEq(iou_result, <<1, 1>>)
        ELSE QuotEq(iou_result, <<0, 1>>)

C8_Witness ==
    /\ iou_pc = "done"
    /\ iou_box1 = iou_box2
    /\ BoxArea(iou_box1) > 0

(* the interiors of the boxes do not meet: disjoint, or touching along an  *)
(* edge or at a corner                                                     *)
NoInteriorOverlap(b1, b2) ==
    \/ b1[3] <= b2[1] \/ b2[3] <= b1[1]
    \/ b1[4] <= b2[2] \/ b2[4] <= b1[2]

(* C9: _iou(A, B) = _iou(B, A); _iou is 0 when the boxes are disjoint or   *)
(* only touch along an edge or corner, and 0 (a defined value, no division *)
(* by zero) when the union area is zero.                                   *)
C9_IouSymmetricAndZero ==
    iou_pc = "done" =>
        /\ iou_result[2] > 0
        /\ QuotEq(iou_result, _iou(iou_box2, iou_box1))
        /\ NoInteriorOverlap(iou_box1, iou_box2) => iou_result[1] = 0
        /\ (BoxArea(iou_box1) = 0 /\ BoxArea(iou_box2) = 0) => iou_result[1] = 0

C9_Witness ==
    /\ iou_pc = "done"
    /\ iou_box1 # iou_box2
    /\ BoxArea(iou_box1) # BoxArea(iou_box2)
    /\ iou_result[1] > 0
    /\ iou_result[1] < iou_result[2]

(* C10: the result is a partition: every track index is either the track   *)
(* side of exactly one matched pair or in unmatched_tracks (once), every   *)
(* detection index likewise, no index is in two pairs; with no tracks all  *)
(* detections are unmatched, with no detections all tracks are.            *)
C10_AssociationIsPartition ==
    assoc_pc = "done" =>
        LET r == assoc_result
            n == Len(assoc_tracks)
            m == Len(assoc_detections)
            Occ(seq, x) == Cardinality({i \in 1..Len(seq) : seq[i] = x})
            PairsWith(pos, x) ==
                Cardinality({k \in 1..Len(r.matched) : r.matched[k][pos] = x})
        IN  /\ \A k \in 1..Len(r.matched) :
                  r.matched[k][1] \in 1..n /\ r.matched[k][2] \in 1..m
            /\ SeqToSet(r.unmatched_tracks) \subseteq 1..n
            /\ SeqToSet(r.unmatched_dets) \subseteq 1..m
            /\ \A t \in 1..n : PairsWith(1, t) + Occ(r.unmatched_tracks, t) = 1
            /\ \A d \in 1..m : PairsWith(2, d) + Occ(r.unmatched_dets, d) = 1
            /\ n = 0 => (r.matched = << >> /\ r.unmatched_dets = IndexSeq(m))
            /\ m = 0 => (r.matched = << >> /\ r.unmatched_tracks = IndexSeq(n))

C10_Witness ==
    /\ assoc_pc = "done"
    /\ Len(assoc_tracks) = 2
    /\ Len(assoc_detections) = 2
    /\ Len(assoc_result.matched) = 1
    /\ Len(assoc_result.unmatched_tracks) = 1
    /\ Len(assoc_result.unmatched_dets) = 1

-----------------------------------------------------------------------------
(* Properties of single update steps of the LineCounter *)

(* the id is in the tracks of the update that makes this step *)
SeenInStep(id) == unseen'[id] = 0
KnownBefore(id) == id \in DOMAIN track_positions

NewEvents == SubSeq(counting_history', Len(counting_history) + 1, Len(counting_history'))
NewEventsOf(id) == {k \in 1..Len(NewEvents) : NewEvents[k].track_id = id}
NewEventsTo(side) == {k \in 1..Len(NewEvents) : NewEvents[k].direction = side}

SideOf(point) ==
    IF point_to_line_distance(line_start, line_end, point).num < 0 THEN "enter" ELSE "exit"

(* the occupancy after the given events, starting from occ *)
RECURSIVE ReplayOccupancy(_, _, _)
ReplayOccupancy(events, i, occ) ==
    IF i > Len(events) THEN occ
    ELSE IF events[i].direction = "enter" THEN ReplayOccupancy(events, i + 1, occ + 1)
    ELSE ReplayOccupancy(events, i + 1, Max(0, occ - 1))

(* side changed, not marked counted, moved at least min_crossing_distance *)
CrossingQualifies(id) ==
    /\ track_sides[id] # SideOf(track_positions'[id])
    /\ ~MapGet(track_crossed, id, FALSE)
    /\ MoveSq(track_positions[id], track_positions'[id])
         >= min_crossing_distance * min_crossing_distance

(* C11: for an id already known to the counter, an update logs an event    *)
(* for it iff its side differs from the recorded side, its counted flag is *)
(* not set and it moved >= min_crossing_distance; the event's direction is *)
(* the side arrived at, an enter adds 1 to total_enter and to the          *)
(* occupancy, an exit adds 1 to total_exit and makes the occupancy         *)
(* max(0, occupancy - 1), and the counted flag becomes true.               *)
C11_EventIffQualifyingCrossing ==
    [][/\ \A id \in CounterIds :
            (KnownBefore(id) /\ SeenInStep(id)) =>
                /\ (NewEventsOf(id) # {}) <=> CrossingQualifies(id)
                /\ CrossingQualifies(id) =>
                      /\ Cardinality(NewEventsOf(id)) = 1
                      /\ \A k \in NewEventsOf(id) :
                            NewEvents[k].direction = SideOf(track_positions'[id])
                      /\ id \in DOMAIN track_crossed'
                      /\ track_crossed'[id] = TRUE
       /\ total_enter' = total_enter + Cardinality(NewEventsTo("enter"))
       /\ total_exit' = total_exit + Cardinality(NewEventsTo("exit"))
       /\ current_occupancy' = ReplayOccupancy(NewEvents, 1, current_occupancy)]_vars

(* an exit counted at occupancy 0, an enter, and a side change left        *)
(* uncounted because the id moved 1 px                                     *)
C11_Witness ==
    /\ Len(counting_history) = 2
    /\ counting_history[1].direction = "exit"
    /\ counting_history[2].direction = "enter"
    /\ current_occupancy = 1
    /\ 7 \in DOMAIN track_crossed
    /\ track_crossed[7] = FALSE
    /\ track_positions[7] = <<50, 50>>

IsPrefix(s1, s2) == Len(s1) <= Len(s2) /\ SubSeq(s2, 1, Len(s1)) = s1

(* C12: the log is append-only and consistent with the counters: every     *)
(* update leaves the previous log as a prefix; the k-th event carries      *)
(* totals that sum to k and count the enter and exit events up to and      *)
(* including itself; the log length is total_enter + total_exit; the last  *)
(* event's totals are the counter's totals.                                *)
C12_LogAppendOnlyAndConsistent ==
    [][/\ IsPrefix(counting_history, counting_history')
       /\ Len(counting_history') = total_enter' + total_exit'
       /\ \A k \in 1..Len(counting_history') :
             LET e == counting_history'[k]
                 upto == SubSeq(counting_history', 1, k)
             IN  /\ e.total_enter + e.total_exit = k
                 /\ e.total_enter
                      = Cardinality({j \in 1..k : upto[j].direction = "enter"})
                 /\ e.total_exit
                      = Cardinality({j \in 1..k : upto[j].direction = "exit"})
       /\ Len(counting_history') > 0 =>
             /\ counting_history'[Len(counting_history')].total_enter = total_enter'
             /\ counting_history'[Len(counting_history')].total_exit = total_exit']_vars

(* two events of two ids *)
C12_Witness ==
    /\ Len(counting_history) = 2
    /\ counting_history[1].track_id # counting_history[2].track_id
    /\ counting_history[2].total_enter + counting_history[2].total_exit = 2

C14_FlagClearedExactlyOnRearm ==
    [][\A id \in CounterIds :
          (/\ KnownBefore(id) /\ SeenInStep(id)
           /\ MapGet(track_crossed, id, FALSE)) =>
              /\ id \in DOMAIN track_crossed'
              /\ (track_crossed'[id] = FALSE)
                   <=> RearmCondition(line_start, line_end,
                                      track_positions[id], track_positions'[id])]_vars

(* counted going out, then at exactly crossing_reset_distance: still set *)
C14_Witness ==
    /\ Len(counting_history) = 2
    /\ 7 \in DOMAIN track_positions
    /\ track_positions[7] = <<70, 50>>
    /\ track_crossed[7] = TRUE
    /\ counting_history[2].direction = "exit"

-----------------------------------------------------------------------------
(* Track ageing *)

(* C15: a lost track that is never re-matched is discarded: once more than *)
(* max_age update calls have passed since its last successful match, it is *)
(* in neither the tracked nor the lost set.                                *)
C15_LostDiscardedAfterMaxAge ==
    \A t \in SeqToSet(tracked_tracks) \cup SeqToSet(lost_tracks) :
        since_match[t.track_id] <= max_age

-----------------------------------------------------------------------------
(* First sighting *)

(* C16: when an update sees an id the counter holds no record of (never    *)
(* seen, or purged since), it records the id's center and its side, sets   *)
(* the counted flag to false and logs no event for it; with no event in    *)
(* the call no total changes.  This holds on either side of the line.      *)
C16_FirstSightingOnlyRecords ==
    [][\A id \in CounterIds :
          (last_call' = "update" /\ ~KnownBefore(id) /\ SeenInStep(id)) =>
              /\ id \in DOMAIN track_positions'
              /\ \E x \in PurgeXs : track_positions'[id] = <<x, 50>>
              /\ id \in DOMAIN track_sides'
              /\ track_sides'[id] = SideOf(track_positions'[id])
              /\ id \in DOMAIN track_crossed'
              /\ track_crossed'[id] = FALSE
              /\ NewEventsOf(id) = {}
              /\ NewEvents = << >> =>
                    /\ total_enter' = total_enter
                    /\ total_exit' = total_exit
                    /\ current_occupancy' = current_occupancy
                    /\ counting_history' = counting_history]_vars

(* id 7 was counted out once, purged, and has just been seen again on the  *)
(* enter side: its flag is false and nothing was added to the one exit     *)
C16_Witness ==
    /\ Len(counting_history) = 1
    /\ counting_history[1].direction = "exit"
    /\ total_enter = 0 /\ total_exit = 1
    /\ 7 \in DOMAIN track_positions
    /\ track_positions[7] = <<40, 50>>
    /\ track_sides[7] = "enter"
    /\ track_crossed[7] = FALSE
    /\ unseen[7] = 0

-----------------------------------------------------------------------------
(* reset_counting_flags and get_history *)

(* C17: reset_counting_flags clears the counted flags and nothing else:    *)
(* the totals, the occupancy, the log, and every record's center, side and *)
(* unseen counter are unchanged; an id whose flag was cleared is counted   *)
(* on its next side change with a move >= min_crossing_distance.           *)
C17_ResetClearsOnlyFlags ==
    [][/\ last_call' = "reset_counting_flags" =>
            /\ \A id \in CounterIds : ~MapGet(track_crossed', id, FALSE)
            /\ total_enter' = total_enter
            /\ total_exit' = total_exit
            /\ current_occupancy' = current_occupancy
            /\ counting_history' = counting_history
            /\ track_positions' = track_positions
            /\ track_sides' = track_sides
            /\ track_lost_frames' = track_lost_frames
       /\ \A id \in CounterIds :
            (/\ last_call' = "update"
             /\ KnownBefore(id) /\ SeenInStep(id)
             /\ id \notin DOMAIN track_crossed
             /\ track_sides[id] # SideOf(track_positions'[id])
             /\ MoveSq(track_positions[id], track_positions'[id])
                  >= min_crossing_distance * min_crossing_distance)
            => Cardinality(NewEventsOf(id)) = 1]_vars

(* id 7 went 49 -> 51 (exit counted) and, never farther than 1 px from the *)
(* line, back to 49 where it was counted again: the flag set by the exit   *)
(* was cleared by a reset in between                                       *)
C17_Witness ==
    /\ Len(counting_history) = 2
    /\ counting_history[1].track_id = 7 /\ counting_history[1].direction = "exit"
    /\ counting_history[2].track_id = 7 /\ counting_history[2].direction = "enter"
    /\ track_positions[7] = <<49, 50>>
    /\ last_call = "update"

(* C18: get_history returns the events of the log in append order in a new *)
(* list and changes no counter state; when the caller adds or removes      *)
(* elements of a returned list the counter's log and state are unchanged,  *)
(* so a later get_history returns the log again.                           *)
C18_GetHistoryReturnsCopy ==
    [][/\ last_call' = "get_history" => returned_history'.items = counting_history
       /\ last_call' \in {"get_history", "caller_edit"} =>
            /\ counting_history' = counting_history
            /\ total_enter' = total_enter
            /\ total_exit' = total_exit
            /\ current_occupancy' = current_occupancy
            /\ track_positions' = track_positions
            /\ track_sides' = track_sides
            /\ track_crossed' = track_crossed
            /\ track_lost_frames' = track_lost_frames]_vars

(* the caller took the one-event log, removed its element and put in two   *)
(* of its own; the counter's log still holds its one event                 *)
C18_Witness ==
    /\ last_call = "caller_edit"
    /\ Len(counting_history) = 1
    /\ counting_history[1].track_id = 7
    /\ returned_history.items = <<ForeignEvent, ForeignEvent>>

-----------------------------------------------------------------------------
(* Sides of the line *)

(* C19: the recorded side of every track is enter when the signed distance *)
(* of its center is < 0 and exit when it is >= 0 (on the line included);   *)
(* the direction given at construction has no effect: from every state and *)
(* for every input, update gives the same totals, occupancy, events and    *)
(* records with "horizontal" as with "vertical".                           *)
C19_SideIsSignOfDistance ==
    /\ \A id \in DOMAIN track_sides :
          track_sides[id] =
             (IF point_to_line_distance(line_start, line_end, track_positions[id]).num < 0
              THEN "enter" ELSE "exit")
    /\ \A tracks \in TrackLists({7}, LineXs), timestamp \in Timestamps :
          UpdateResult(CounterState, line_start, line_end, "horizontal", tracks, timestamp)
            = UpdateResult(CounterState, line_start, line_end, "vertical", tracks, timestamp)

(* a counter built as "horizontal" on the line x = 50: the track came from *)
(* the left, was counted as an exit and now stands exactly on the line, on *)
(* the exit side                                                           *)
C19_Witness ==
    /\ direction = "horizontal"
    /\ line_start = <<50, 0>> /\ line_end = <<50, 100>>
    /\ Len(counting_history) = 1
    /\ counting_history[1].direction = "exit"
    /\ 7 \in DOMAIN track_positions
    /\ track_positions[7] = <<50, 50>>
    /\ track_sides[7] = "exit"
    /\ point_to_line_distance(line_start, line_end, track_positions[7]).num = 0

(* C20: with line_start = line_end the signed distance of every recorded   *)
(* center is 0, every track is on the exit side, the log is empty and      *)
(* total_enter, total_exit and current_occupancy are 0.                    *)
C20_DegenerateLineNeverCounts ==
    line_start = line_end =>
        /\ \A id \in DOMAIN track_positions :
              /\ point_to_line_distance(line_start, line_end, track_positions[id]).num = 0
              /\ track_sides[id] = "exit"
        /\ counting_history = << >>
        /\ total_enter = 0
        /\ total_exit = 0
        /\ current_occupancy = 0

(* on the degenerate line the track has just been seen at x = 29, left of *)
(* where the line would be, and is on the exit side                        *)
C20_Witness ==
    /\ line_start = line_end
    /\ last_call = "update"
    /\ 7 \in DOMAIN track_positions
    /\ track_positions[7] = <<29, 50>>
    /\ track_sides[7] = "exit"
    /\ unseen[7] = 0
    /\ track_crossed[7] = FALSE

-----------------------------------------------------------------------------
(* The reference greedy association *)

(* candidate c1 is processed before c2: higher IoU first, equal IoU in     *)
(* order of track index, then detection index                              *)
RefBefore(c1, c2) ==
    \/ c1.iou[1] * c2.iou[2] > c2.iou[1] * c1.iou[2]
    \/ /\ c1.iou[1] * c2.iou[2] = c2.iou[1] * c1.iou[2]
       /\ (c1.t < c2.t \/ (c1.t = c2.t /\ c1.d < c2.d))

RefPairs(detections, tracks) ==
    {[t |-> t, d |-> d, iou |-> _iou(tracks[t].bbox, DetBox(detections[d]))] :
        t \in 1..Len(tracks), d \in 1..Len(detections)}

RefCandidates(detections, tracks) ==
    {c \in RefPairs(detections, tracks) :
        c.iou[1] * iou_threshold[2] >= iou_threshold[1] * c.iou[2]}

RECURSIVE RefGreedy(_, _)
RefGreedy(cands, acc) ==
    IF cands = {} THEN acc
    ELSE LET c == CHOOSE x \in cands : \A o \in cands \ {x} : RefBefore(x, o)
             free == \A k \in 1..Len(acc) : acc[k][1] # c.t /\ acc[k][2] # c.d
         IN  RefGreedy(cands \ {c}, IF free THEN Append(acc, <<c.t, c.d>>) ELSE acc)

RefAssociation(detections, tracks) ==
    LET matched == RefGreedy(RefCandidates(detections, tracks), << >>)
    IN  [matched |-> matched,
         unmatched_tracks |->
             Without(IndexSeq(Len(tracks)), {matched[k][1] : k \in 1..Len(matched)}, 1),
         unmatched_dets |->
             Without(IndexSeq(Len(detections)), {matched[k][2] : k \in 1..Len(matched)}, 1)]

(* C21: the association result is that of the reference greedy procedure   *)
(* (candidates: the pairs with IoU >= iou_threshold; order: IoU            *)
(* descending, ties by track index then detection index; accepted iff      *)
(* track and detection are both unassigned), and the first accepted pair   *)
(* has the maximum IoU of all pairs.  IoU is the quotient                  *)
(* inter_area / union_area.                                                *)
C21_AssociationIsReferenceGreedy ==
    assoc_pc = "done" =>
        /\ assoc_result = RefAssociation(assoc_detections, assoc_tracks)
        /\ assoc_result.matched # << >> =>
              \A c, o \in RefPairs(assoc_detections, assoc_tracks) :
                  (c.t = assoc_result.matched[1][1] /\ c.d = assoc_result.matched[1][2])
                     => o.iou[1] * c.iou[2] <= c.iou[1] * o.iou[2]

-----------------------------------------------------------------------------
(* The steps of ByteTracker.update *)

(* C22: after each update, the time_since_update of every track in the     *)
(* tracked or the lost set is the number of update calls completed since   *)
(* the track was last matched (0 if created or matched in this update).    *)
C22_TimeSinceUpdateCountsCalls ==
    \A t \in SeqToSet(tracked_tracks) \cup SeqToSet(lost_tracks) :
        t.time_since_update = since_match[t.track_id]

(* the step is a ByteTracker.update of the step run *)
UpdateStep == frame_count' = frame_count + 1

(* the first association of the step, recomputed from the state before it  *)
(* and the recorded argument                                               *)
FirstAssoc ==
    _associate_detections_to_trackers(HighConfDets(last_detections'),
                                      AgeTracked(tracked_tracks))

TrackOf(tracks, id) == CHOOSE t \in SeqToSet(tracks) : t.track_id = id

(* C23: a tracked track left unmatched by the high-confidence association  *)
(* leaves the tracked set in that update: with time_since_update > max_age *)
(* it is discarded, otherwise it goes to the lost set; it is in the        *)
(* tracked set at the end of the update only if the low-confidence         *)
(* association matched it (its hit count went up by one).                  *)
C23_UnmatchedTrackedLeaveTrackedSet ==
    [][UpdateStep =>
         \A i \in SeqToSet(FirstAssoc.unmatched_tracks) :
            LET t == tracked_tracks[i]
                id == t.track_id
            IN  IF t.time_since_update + 1 > max_age
                THEN /\ id \notin IdsOf(tracked_tracks') \cup IdsOf(lost_tracks')
                     /\ id \in IdsOf(removed_tracks')
                ELSE \/ /\ id \in IdsOf(lost_tracks')
                        /\ id \notin IdsOf(tracked_tracks')
                        /\ TrackOf(lost_tracks', id).hits = t.hits
                     \/ /\ id \in IdsOf(tracked_tracks')
                        /\ id \notin IdsOf(lost_tracks')
                        /\ TrackOf(tracked_tracks', id).hits = t.hits + 1
                        /\ TrackOf(tracked_tracks', id).conf < high_thresh]_vars

(* with max_age = 0 the track at BoxA, unmatched by the detection at BoxD, *)
(* has been discarded and the detection has made a new track               *)
C23_Witness ==
    /\ max_age = 0
    /\ last_detections = <<Det(BoxD, 60)>>
    /\ IdsOf(removed_tracks) = {1}
    /\ IdsOf(tracked_tracks) = {2}
    /\ lost_tracks = << >>

(* the tracks held after the step that the step created or updated *)
HeldAfter == SeqToSet(tracked_tracks') \cup SeqToSet(lost_tracks')
HeldBefore == SeqToSet(tracked_tracks) \cup SeqToSet(lost_tracks)
CreatedInStep(t2) == t2.track_id >= next_id
UpdatedInStep(t2) == \E t \in HeldBefore : t.track_id = t2.track_id /\ t2.hits = t.hits + 1

(* no track is created or updated with a confidence below track_thresh,    *)
(* none is created with one below high_thresh, and a detection at exactly  *)
(* high_thresh has updated or created a tracked track                      *)
TiersRespected ==
    /\ \A t2 \in HeldAfter :
          /\ (CreatedInStep(t2) \/ UpdatedInStep(t2)) => t2.conf >= track_thresh
          /\ CreatedInStep(t2) => t2.conf >= high_thresh
    /\ \A k \in 1..Len(last_detections') :
          last_detections'[k][5] = high_thresh =>
             \E t2 \in SeqToSet(tracked_tracks') :
                /\ t2.bbox = DetBox(last_detections'[k])
                /\ t2.conf = high_thresh
                /\ t2.time_since_update = 0
                /\ CreatedInStep(t2) \/ UpdatedInStep(t2)

(* C24, as stated: a detection below track_thresh never creates, updates   *)
(* or reactivates a track; one in [track_thresh, high_thresh) never        *)
(* creates a track and never updates a track that was in the tracked set;  *)
(* one at exactly high_thresh is high-confidence.                          *)
C24_LowNeverUpdatesTracked ==
    [][UpdateStep =>
         /\ TiersRespected
         /\ \A t \in SeqToSet(tracked_tracks), t2 \in HeldAfter :
               (t2.track_id = t.track_id /\ t2.hits = t.hits + 1)
                  => t2.conf >= high_thresh]_vars

(* the high-confidence detections of the argument, by the claim's rule *)
HighTier(detections) ==
    LET AtLeastHigh(d) == d[5] >= high_thresh
    IN  SelectSeq(detections, AtLeastHigh)

(* C24, amended: as above, but a detection in [track_thresh, high_thresh)  *)
(* is never matched by the first association; the tracks it can update     *)
(* are those in the lost set when the second association runs, among them  *)
(* the tracks that were tracked when the update began and were left        *)
(* unmatched by the first association.                                     *)
C24_LowUpdatesOnlyLostPool ==
    [][UpdateStep =>
         /\ TiersRespected
         /\ LET a1 == _associate_detections_to_trackers(HighTier(last_detections'),
                                                        AgeTracked(tracked_tracks))
            IN  \A i \in 1..Len(tracked_tracks), t2 \in HeldAfter :
                   (/\ t2.track_id = tracked_tracks[i].track_id
                    /\ t2.hits = tracked_tracks[i].hits + 1
                    /\ t2.conf < high_thresh)
                   => i \in SeqToSet(a1.unmatched_tracks)]_vars

(* the track made from BoxA at high_thresh was tracked when the update     *)
(* with the one detection of BoxB at track_thresh began, and carries that  *)
(* detection's box and confidence after it                                 *)
C24_Witness ==
    /\ frame_count = 2
    /\ last_detections = <<Det(BoxB, track_thresh)>>
    /\ lost_tracks = << >>
    /\ Len(tracked_tracks) = 1
    /\ tracked_tracks[1].track_id = 1
    /\ tracked_tracks[1].bbox = BoxB
    /\ tracked_tracks[1].conf = track_thresh
    /\ tracked_tracks[1].hits = 2

(* C25: in each update every high-confidence detection left unmatched by   *)
(* the first association makes exactly one new track, tracked, with the    *)
(* next id, hit count 1, time_since_update 0 and a history of one center;  *)
(* next_id advances by the number of these detections and no other track   *)
(* appears.                                                                *)
C25_UnmatchedHighCreatesOneTrack ==
    [][UpdateStep =>
         LET high == HighTier(last_detections')
             a1 == _associate_detections_to_trackers(high, AgeTracked(tracked_tracks))
             n == Len(a1.unmatched_dets)
             old == IdsOf(tracked_tracks) \cup IdsOf(lost_tracks) \cup IdsOf(removed_tracks)
         IN  /\ next_id' = next_id + n
             /\ \A k \in 1..n :
                   Cardinality({j \in 1..Len(tracked_tracks') :
                       tracked_tracks'[j] =
                          [track_id |-> next_id + k - 1,
                           bbox |-> DetBox(high[a1.unmatched_dets[k]]),
                           conf |-> high[a1.unmatched_dets[k]][5],
                           hits |-> 1,
                           time_since_update |-> 0,
                           history |-> <<BoxCenter(DetBox(high[a1.unmatched_dets[k]]))>>]}) = 1
             /\ IdsOf(tracked_tracks') \subseteq old \cup (next_id..(next_id + n - 1))
             /\ Len(tracked_tracks') = Cardinality(IdsOf(tracked_tracks'))
             /\ IdsOf(lost_tracks') \cup IdsOf(removed_tracks') \subseteq old]_vars

(* the detection at BoxA matched track 1, the one at BoxD made track 2 *)
C25_Witness ==
    /\ last_detections = <<Det(BoxA, 60), Det(BoxD, 60)>>
    /\ next_id = 3
    /\ Len(tracked_tracks) = 2
    /\ tracked_tracks[1].track_id = 1
    /\ tracked_tracks[1].hits = 2
    /\ tracked_tracks[2] = [track_id |-> 2, bbox |-> BoxD, conf |-> 60, hits |-> 1,
                            time_since_update |-> 0, history |-> <<<<45, 5>>>>]

(* the low-confidence detections of the argument, by the claim's rule *)
LowTier(detections) ==
    LET InLowTier(d) == track_thresh <= d[5] /\ d[5] < high_thresh
    IN  SelectSeq(detections, InLowTier)

(* the second association of the step, recomputed: the lost tracks, then   *)
(* the tracked tracks the first association left unmatched                 *)
LostPool ==
    LET Young(t) == t.time_since_update <= max_age
    IN  lost_tracks \o SelectSeq(Pick(AgeTracked(tracked_tracks),
                                      FirstAssoc.unmatched_tracks), Young)

SecondAssoc == _associate_detections_to_trackers(LowTier(last_detections'), LostPool)

(* the track of the pool is tracked after the step as the update by the    *)
(* detection leaves it, and is emitted if that makes min_hits hits         *)
ReactivatedBy(l, d) ==
    LET t2 == [l EXCEPT !.bbox = DetBox(d), !.conf = d[5], !.hits = l.hits + 1,
                        !.time_since_update = 0,
                        !.history = IF Len(l.history) >= history_maxlen
                                    THEN Append(Tail(l.history), BoxCenter(DetBox(d)))
                                    ELSE Append(l.history, BoxCenter(DetBox(d)))]
    IN  /\ Cardinality({j \in 1..Len(tracked_tracks') : tracked_tracks'[j] = t2}) = 1
        /\ l.track_id \notin IdsOf(lost_tracks')
        /\ (l.hits + 1 >= min_hits) =>
              (\E k \in 1..Len(output_tracks') : output_tracks'[k] = TrackTuple(t2))
        /\ (l.hits + 1 < min_hits) =>
              (\A k \in 1..Len(output_tracks') : output_tracks'[k][5] # l.track_id)

(* C26: a track that was lost when the update began and is matched by a    *)
(* low-confidence detection is tracked after the update with the same id,  *)
(* its hit count one above its count when it was lost and                  *)
(* time_since_update 0; with hits >= min_hits - 1 before, it is in the     *)
(* output of this update.                                                  *)
C26_LostReactivatedKeepsHits ==
    [][UpdateStep =>
         \A k \in 1..Len(SecondAssoc.matched) :
            SecondAssoc.matched[k][1] <= Len(lost_tracks) =>
               ReactivatedBy(lost_tracks[SecondAssoc.matched[k][1]],
                             LowTier(last_detections')[SecondAssoc.matched[k][2]])]_vars

(* track 1 had two hits when it was lost; the detection of BoxB at         *)
(* track_thresh found it in the lost set, and it is emitted with 3 hits    *)
C26_Witness ==
    /\ lost_before = {1}
    /\ last_detections = <<Det(BoxB, track_thresh)>>
    /\ Len(tracked_tracks) = 1
    /\ tracked_tracks[1].track_id = 1
    /\ tracked_tracks[1].hits = 3
    /\ tracked_tracks[1].time_since_update = 0
    /\ min_hits = 3
    /\ output_tracks = <<TrackTuple(tracked_tracks[1])>>

(* the detection's box has IoU >= iou_threshold with the track's box *)
Overlaps(t, d) ==
    LET q == _iou(t.bbox, DetBox(d))
    IN  q[1] * iou_threshold[2] >= iou_threshold[1] * q[2]

(* C27: a high-confidence detection is never matched against a lost       *)
(* track: a track that was lost when the update began and is tracked after *)
(* it carries the box and confidence of a low-confidence detection of the  *)
(* argument, and a high-confidence detection that overlaps no tracked      *)
(* track makes a new track with a new id, whatever lost tracks it          *)
(* overlaps.                                                               *)
C27_HighNeverRevivesLost ==
    [][UpdateStep =>
         /\ \A l \in SeqToSet(lost_tracks), t2 \in SeqToSet(tracked_tracks') :
               t2.track_id = l.track_id =>
                  \E j \in 1..Len(LowTier(last_detections')) :
                     /\ t2.bbox = DetBox(LowTier(last_detections')[j])
                     /\ t2.conf = LowTier(last_detections')[j][5]
                     /\ t2.conf < high_thresh
         /\ \A k \in 1..Len(last_detections') :
               (/\ last_detections'[k][5] >= high_thresh
                /\ \A t \in SeqToSet(tracked_tracks) : ~Overlaps(t, last_detections'[k]))
               => \E t2 \in SeqToSet(tracked_tracks') :
                     /\ t2.track_id >= next_id
                     /\ t2.bbox = DetBox(last_detections'[k])
                     /\ t2.conf = last_detections'[k][5]
                     /\ t2.hits = 1]_vars

(* track 1 was lost at BoxA; the detection of BoxA at high_thresh made     *)
(* track 2 there and left track 1 lost                                     *)
C27_Witness ==
    /\ lost_before = {1}
    /\ last_detections = <<Det(BoxA, high_thresh)>>
    /\ Len(lost_tracks) = 1
    /\ lost_tracks[1].track_id = 1
    /\ lost_tracks[1].bbox = BoxA
    /\ Len(tracked_tracks) = 1
    /\ tracked_tracks[1].track_id = 2
    /\ tracked_tracks[1].bbox = BoxA
    /\ tracked_tracks[1].hits = 1

(* the track overlaps a low-confidence detection of the argument and no    *)
(* high-confidence one                                                     *)
OnlyLowOverlaps(t) ==
    /\ \E k \in 1..Len(last_detections') :
          /\ track_thresh <= last_detections'[k][5]
          /\ last_detections'[k][5] < high_thresh
          /\ Overlaps(t, last_detections'[k])
    /\ \A k \in 1..Len(last_detections') :
          last_detections'[k][5] >= high_thresh => ~Overlaps(t, last_detections'[k])

TrackedAfterWithOneMoreHit(t) ==
    \E t2 \in SeqToSet(tracked_tracks') :
        /\ t2.track_id = t.track_id
        /\ t2.hits = t.hits + 1
        /\ t2.time_since_update = 0
        /\ t2.conf < high_thresh
        /\ (t2.hits >= min_hits) =>
              (\E k \in 1..Len(output_tracks') : output_tracks'[k] = TrackTuple(t2))

(* C28, as stated: a tracked track whose only overlapping detection in the *)
(* update is low-confidence is in the tracked set after the update with    *)
(* its hit count up by exactly 1, and is emitted if that makes min_hits.   *)
C28_LowOnlyOverlapReactivates ==
    [][UpdateStep =>
         \A t \in SeqToSet(tracked_tracks) :
            OnlyLowOverlaps(t) => TrackedAfterWithOneMoreHit(t)]_vars

(* C28, amended: such a track is discarded when max_age < 1; otherwise it  *)
(* joins the lost tracks for the second association, and either is matched *)
(* there (tracked after the update, hit count up by exactly 1, emitted     *)
(* with min_hits hits) or stays lost with its hit count because every      *)
(* low-confidence detection that overlaps it went to another track.        *)
C28_LowOnlyOverlapReactivatesUnlessTaken ==
    [][UpdateStep =>
         \A t \in SeqToSet(tracked_tracks) :
            OnlyLowOverlaps(t) =>
               IF max_age < 1
               THEN /\ t.track_id \notin IdsOf(tracked_tracks') \cup IdsOf(lost_tracks')
                    /\ t.track_id \in IdsOf(removed_tracks')
               ELSE \/ TrackedAfterWithOneMoreHit(t)
                    \/ /\ t.track_id \notin IdsOf(tracked_tracks')
                       /\ \E l \in SeqToSet(lost_tracks') :
                             l.track_id = t.track_id /\ l.hits = t.hits
                       /\ \A k \in 1..Len(last_detections') :
                             (/\ track_thresh <= last_detections'[k][5]
                              /\ last_detections'[k][5] < high_thresh
                              /\ Overlaps(t, last_detections'[k]))
                             => \E o \in SeqToSet(tracked_tracks') :
                                   /\ o.track_id # t.track_id
                                   /\ o.bbox = DetBox(last_detections'[k])
                                   /\ o.conf = last_detections'[k][5]
                                   /\ o.time_since_update = 0]_vars

(* no track was lost when the update began; track 1, tracked with two      *)
(* hits, met only the detection of BoxB at track_thresh and is emitted     *)
(* with three                                                              *)
C28_Witness ==
    /\ lost_before = {}
    /\ max_age = default_max_age
    /\ last_detections = <<Det(BoxB, track_thresh)>>
    /\ Len(tracked_tracks) = 1
    /\ tracked_tracks[1].track_id = 1
    /\ tracked_tracks[1].hits = 3
    /\ tracked_tracks[1].conf = track_thresh
    /\ lost_tracks = << >>
    /\ output_tracks = <<TrackTuple(tracked_tracks[1])>>

-----------------------------------------------------------------------------
(* Re-arming and the overwritten record *)

(* the id changes side in this step and moves >= min_crossing_distance *)
SideChangeWithMove(id) ==
    /\ last_call' = "update"
    /\ KnownBefore(id) /\ SeenInStep(id)
    /\ track_sides[id] # SideOf(track_positions'[id])
    /\ MoveSq(track_positions[id], track_positions'[id])
         >= min_crossing_distance * min_crossing_distance

(* C29, as stated: once a track whose counted flag is set has been seen at *)
(* a center farther than crossing_reset_distance from the line, the next   *)
(* update in which it changes side with a move >= min_crossing_distance    *)
(* logs an event for it.                                                   *)
C29_SeenFarThenCounted ==
    [][\A id \in CounterIds :
          (MapGet(seen_far, id, FALSE) /\ SideChangeWithMove(id))
             => NewEventsOf(id) # {}]_vars

(* C30: every update leaves, for each track in its argument, the track's   *)
(* current center and the side of that center as the recorded position and *)
(* side, whether or not it logged an event for the track; so an event is   *)
(* logged for a known track only when its current center is on the other   *)
(* side from the center of its previous sighting, and a side change that   *)
(* was rejected (move < min_crossing_distance, or counted flag set) is not *)
(* counted by a later update in which the side does not change again.      *)
C30_RecordOverwrittenEveryUpdate ==
    [][\A id \in CounterIds :
          SeenInStep(id) =>
              /\ id \in DOMAIN track_positions' /\ id \in DOMAIN track_sides'
              /\ track_positions'[id] = last_center'[id]
              /\ track_sides'[id] = SideOf(last_center'[id])
              /\ (KnownBefore(id) /\ NewEventsOf(id) # {}) =>
                    SideOf(last_center[id]) # SideOf(last_center'[id])]_vars

(* counted going out, then seen at 30 on the enter side with the flag set: *)
(* the side change was rejected, the record holds 30 and the enter side,   *)
(* and no later event was logged                                           *)
C30_Witness ==
    /\ Len(counting_history) = 1
    /\ counting_history[1].direction = "exit"
    /\ 7 \in DOMAIN track_positions
    /\ last_center[7] = <<30, 50>>
    /\ track_positions[7] = <<30, 50>>
    /\ track_sides[7] = "enter"
    /\ track_crossed[7] = TRUE

-----------------------------------------------------------------------------
(* Reappearance of an id before its record is purged *)

(* C31: when an id whose record holds an unseen counter is in the tracks   *)
(* of an update, the counter is removed, and an event is logged for the id *)
(* iff the center of its last sighting before the gap and the current      *)
(* center are on different sides, the counted flag held before the gap is  *)
(* not set and the two centers are >= min_crossing_distance apart; while   *)
(* the id is away its recorded center, side and flag do not change, and    *)
(* the first update of an absence sets the unseen counter to 0.            *)
C31_ReappearanceUsesRecordBeforeGap ==
    [][\A id \in CounterIds :
          /\ (KnownBefore(id) /\ ~SeenInStep(id) /\ id \in DOMAIN track_positions') =>
                /\ track_positions'[id] = last_center[id]
                /\ track_sides'[id] = SideOf(last_center[id])
                /\ track_crossed'[id] = track_crossed[id]
                /\ id \in DOMAIN track_lost_frames'
                /\ id \notin DOMAIN track_lost_frames => track_lost_frames'[id] = 0
          /\ (SeenInStep(id) /\ id \in DOMAIN track_lost_frames) =>
                /\ id \notin DOMAIN track_lost_frames'
                /\ (NewEventsOf(id) # {})
                     <=> /\ SideOf(last_center[id]) # SideOf(last_center'[id])
                         /\ ~track_crossed[id]
                         /\ MoveSq(last_center[id], last_center'[id])
                              >= min_crossing_distance * min_crossing_distance
                /\ \A k \in NewEventsOf(id) :
                      NewEvents[k].direction = SideOf(last_center'[id])]_vars

(* the id came back on the exit side after a gap and was counted, and is   *)
(* away again for the first call of a new absence                          *)
C31_Witness ==
    /\ Len(counting_history) = 1
    /\ counting_history[1].direction = "exit"
    /\ counting_history[1].track_id = 7
    /\ reappeared[7] = "counted"
    /\ track_crossed[7] = TRUE
    /\ 7 \in DOMAIN track_lost_frames
    /\ track_lost_frames[7] = 0

-----------------------------------------------------------------------------
(* The counter with the endpoints swapped *)

(* the two logs have the same length and ids, with every direction reversed, *)
(* and the totals of one are the totals of the other exchanged              *)
Mirrored ==
    /\ mirror.te = total_exit
    /\ mirror.tx = total_enter
    /\ Len(mirror.hist) = Len(counting_history)
    /\ \A k \in 1..Min(Len(mirror.hist), Len(counting_history)) :
          /\ mirror.hist[k].track_id = counting_history[k].track_id
          /\ mirror.hist[k].direction # counting_history[k].direction

(* C32, as stated: after every sequence of updates given to both, the      *)
(* counter with line_start and line_end swapped has as total_enter the     *)
(* total_exit of the original and vice versa, and its events are those of  *)
(* the original with the direction reversed.                               *)
C32_SwappedEndpointsMirror == Mirrored

(* C32, amended: the same, for the sequences of updates in which no track  *)
(* center lies on the line.                                                *)
C32_SwappedEndpointsMirrorOffLine == ~on_line => Mirrored

(* no center on the line so far; an exit and an enter logged by the        *)
(* original, an enter and an exit by the counter with swapped endpoints    *)
C32_Witness ==
    /\ ~on_line
    /\ Len(counting_history) = 2
    /\ counting_history[1].direction = "exit"
    /\ counting_history[2].direction = "enter"
    /\ Len(mirror.hist) = 2
    /\ mirror.hist[1].direction = "enter"
    /\ mirror.hist[2].direction = "exit"
    /\ mirror.te = 1 /\ mirror.tx = 1
    /\ total_enter = 1 /\ total_exit = 1

-----------------------------------------------------------------------------
(* The bounded history of a track *)

(* the last n elements of s, or all of s if it has fewer *)
LastOf(s, n) == SubSeq(s, Max(1, Len(s) - n + 1), Len(s))

(* C33: the history of every track holds at most 30 centers; it holds one  *)
(* center per hit (the creation and each match) up to 30, and it is the    *)
(* sequence of the most recent (up to 30) centers given to the track,      *)
(* oldest first.                                                           *)
C33_HistoryIsLastThirtyCenters ==
    \A t \in SeqToSet(tracked_tracks) \cup SeqToSet(lost_tracks) :
        /\ Len(t.history) <= history_maxlen
        /\ Len(t.history) = Min(history_maxlen, t.hits)
        /\ t.track_id \in DOMAIN appended =>
              /\ Len(appended[t.track_id]) = t.hits
              /\ t.history = LastOf(appended[t.track_id], history_maxlen)

(* a track with 32 hits: its history holds 30 centers, the first two have  *)
(* been evicted and the last one is the center of its current box          *)
C33_Witness ==
    /\ Len(tracked_tracks) = 1
    /\ tracked_tracks[1].hits = 32
    /\ Len(tracked_tracks[1].history) = 30
    /\ Len(appended[1]) = 32
    /\ tracked_tracks[1].history[1] = appended[1][3]
    /\ tracked_tracks[1].history[1] # appended[1][1]
    /\ tracked_tracks[1].history[30]
          = <<(tracked_tracks[1].bbox[1] + tracked_tracks[1].bbox[3]) \div 2,
              (tracked_tracks[1].bbox[2] + tracked_tracks[1].bbox[4]) \div 2>>

-----------------------------------------------------------------------------
(* The matching against the threshold *)

(* the exact IoU of track t and detection d of the call is >= iou_threshold *)
PairReachesThreshold(t, d) ==
    LET q == _iou(assoc_tracks[t].bbox, DetBox(assoc_detections[d]))
    IN  q[1] * iou_threshold[2] >= iou_threshold[1] * q[2]

(* C34: after an association call every matched pair has IoU >=            *)
(* iou_threshold, and no track left unmatched has IoU >= iou_threshold     *)
(* with a detection left unmatched.                                        *)
C34_MatchedAboveThresholdAndMaximal ==
    assoc_pc = "done" =>
        /\ \A k \in 1..Len(assoc_result.matched) :
              PairReachesThreshold(assoc_result.matched[k][1],
                                   assoc_result.matched[k][2])
        /\ \A t \in SeqToSet(assoc_result.unmatched_tracks),
              d \in SeqToSet(assoc_result.unmatched_dets) :
              ~PairReachesThreshold(t, d)

-----------------------------------------------------------------------------
(* The sets of the tracker after an update *)

(* the ids of a list of tracks are pairwise different *)
DistinctIds(tracks) ==
    \A i, j \in 1..Len(tracks) : i # j => tracks[i].track_id # tracks[j].track_id

(* C35: after every update the tracked and the lost list share no track,   *)
(* no id is held twice within or across them, every id held is below       *)
(* next_id, no id is twice in the output, and no track has more than one   *)
(* hit more than it had before the update.                                 *)
C35_SetsDisjointIdsUniqueOneHitPerUpdate ==
    [][UpdateStep =>
         /\ SeqToSet(tracked_tracks') \cap SeqToSet(lost_tracks') = {}
         /\ DistinctIds(tracked_tracks' \o lost_tracks')
         /\ \A t2 \in HeldAfter : t2.track_id < next_id'
         /\ \A i, j \in 1..Len(output_tracks') :
               i # j => output_tracks'[i][5] # output_tracks'[j][5]
         /\ \A t2 \in HeldAfter : \A t \in HeldBefore :
               t.track_id = t2.track_id =>
                  (t2.hits = t.hits \/ t2.hits = t.hits + 1)]_vars

(* two tracks made together and seen twice; in the third update one gets   *)
(* its third hit and is emitted, the other is unmatched and lost           *)
C35_Witness ==
    /\ frame_count = 3
    /\ next_id = 3
    /\ Len(tracked_tracks) = 1 /\ tracked_tracks[1].track_id = 1
    /\ tracked_tracks[1].hits = 3
    /\ Len(lost_tracks) = 1 /\ lost_tracks[1].track_id = 2
    /\ lost_tracks[1].hits = 2
    /\ Len(output_tracks) = 1 /\ output_tracks[1][5] = 1

-----------------------------------------------------------------------------
(* The maps of the counter after an update *)

(* C36: after every update the recorded centers and the recorded sides     *)
(* have the same keys; every id with an unseen counter is one of these     *)
(* keys, was not in the tracks of this update and has a counter below      *)
(* lost_frame_threshold; every id in the tracks of this update has a       *)
(* recorded center and side and no unseen counter.                         *)
C36_MapsConsistentAfterUpdate ==
    last_call = "update" =>
        /\ DOMAIN track_positions = DOMAIN track_sides
        /\ \A id \in DOMAIN track_lost_frames :
              /\ id \in DOMAIN track_positions
              /\ unseen[id] > 0
              /\ track_lost_frames[id] >= 0
              /\ track_lost_frames[id] < lost_frame_threshold
        /\ \A id \in CounterIds :
              unseen[id] = 0 =>
                 /\ id \in DOMAIN track_positions
                 /\ id \in DOMAIN track_sides
                 /\ id \notin DOMAIN track_lost_frames

(* the id has been away for 30 updates: its counter stands at 29, one      *)
(* below the threshold, and its record is still held                       *)
C36_Witness ==
    /\ last_call = "update"
    /\ unseen[7] = 30
    /\ 7 \in DOMAIN track_lost_frames
    /\ track_lost_frames[7] = lost_frame_threshold - 1
    /\ 7 \in DOMAIN track_positions
    /\ 7 \in DOMAIN track_sides

-----------------------------------------------------------------------------
(* The totals and the occupancy; the 'r' key of main *)

(* C37: in every reachable state of the counter, updates and resets of the *)
(* 'r' key included, 0 <= current_occupancy <= total_enter and             *)
(* current_occupancy >= total_enter - total_exit.                          *)
C37_OccupancyBetweenBounds ==
    /\ 0 <= current_occupancy
    /\ current_occupancy <= total_enter
    /\ current_occupancy >= total_enter - total_exit

(* an exit counted at occupancy 0 and then an enter: the occupancy is 1,   *)
(* equal to total_enter and above total_enter - total_exit = 0             *)
C37_Witness ==
    /\ Len(counting_history) = 2
    /\ counting_history[1].direction = "exit"
    /\ counting_history[2].direction = "enter"
    /\ total_enter = 1 /\ total_exit = 1
    /\ current_occupancy = 1

(* C38: the 'r' key sets total_enter, total_exit and current_occupancy to  *)
(* 0, empties the log and leaves no counted flag set, and keeps every      *)
(* recorded center, side and unseen counter; in an update that finds the   *)
(* log empty every known id that changes side with a move                  *)
(* >= min_crossing_distance is counted once, the first event logged        *)
(* carries totals that sum to 1, and after every update the length of the  *)
(* log is total_enter + total_exit.                                        *)
C38_KeyResetZeroesAndRestarts ==
    [][/\ last_call' = "key_reset" =>
            /\ total_enter' = 0 /\ total_exit' = 0 /\ current_occupancy' = 0
            /\ counting_history' = << >>
            /\ \A id \in CounterIds : ~MapGet(track_crossed', id, FALSE)
            /\ track_positions' = track_positions
            /\ track_sides' = track_sides
            /\ track_lost_frames' = track_lost_frames
       /\ last_call' = "update" =>
            /\ Len(counting_history') = total_enter' + total_exit'
            /\ counting_history = << >> =>
                  /\ \A id \in CounterIds :
                        SideChangeWithMove(id) => Cardinality(NewEventsOf(id)) = 1
                  /\ counting_history' # << >> =>
                        counting_history'[1].total_enter
                          + counting_history'[1].total_exit = 1]_vars

(* id 8 has a center but no flag entry, so the 'r' key was pressed after   *)
(* it was first seen; since then id 7 has crossed and its event is the     *)
(* only one in the log, with totals that sum to 1                          *)
C38_Witness ==
    /\ last_call = "update"
    /\ 8 \in DOMAIN track_positions
    /\ 8 \notin DOMAIN track_crossed
    /\ Len(counting_history) = 1
    /\ counting_history[1].track_id = 7
    /\ counting_history[1].total_enter + counting_history[1].total_exit = 1
    /\ total_enter + total_exit = 1
    /\ track_crossed[7] = TRUE

-----------------------------------------------------------------------------
(* The tasks of one job *)

(* the tasks of the job that have been added and have not ended *)
LiveTasks == {i \in 1..Len(job_tasks) : job_tasks[i].pc \in {"added", "initializing", "writing"}}

(* C39: at most one process_video task of the job is added or running at   *)
(* any time, so no two tasks have the output file of the job open at once, *)
(* and a POST made while a task of the job is added or running is answered *)
(* 400.                                                                    *)
C39_AtMostOneTaskPerJob ==
    /\ Cardinality(LiveTasks) <= 1
    /\ Cardinality({i \in 1..Len(job_tasks) : job_tasks[i].pc = "writing"}) <= 1

====
